---- MODULE Spec2Model ----
(***************************************************************************)
(* Neuro_Scholar: the research orchestrator (ResearchOrchestrator), the    *)
(* citation extractor / rewriter it calls and the academic search tool     *)
(* (AcademicSearchTool).                                                   *)
(*                                                                         *)
(* Text is modelled character by character: a string is a sequence of      *)
(* one-character strings, and every regular expression of the source is    *)
(* an operator that matches the same language on such sequences.           *)
(*                                                                         *)
(* A value the source binds to a local and reads more than once is the     *)
(* parameter of an operator, so that it is computed once.                  *)
(***************************************************************************)
EXTENDS Integers, Sequences, FiniteSets, TLC

(***************************************************************************)
(* Characters and JavaScript string primitives                             *)
(***************************************************************************)

\* JavaScript's \s, restricted to the white space the model's texts use.
Space == {" ", "\n", "\t"}

Digits == {"0", "1", "2", "3", "4", "5", "6", "7", "8", "9"}

UpperCase == <<"A", "B", "C", "D", "E", "F", "G", "H", "I", "J", "K", "L", "M",
               "N", "O", "P", "Q", "R", "S", "T", "U", "V", "W", "X", "Y", "Z">>

LowerCase == <<"a", "b", "c", "d", "e", "f", "g", "h", "i", "j", "k", "l", "m",
               "n", "o", "p", "q", "r", "s", "t", "u", "v", "w", "x", "y", "z">>

\* The printable ASCII characters, code 32 first (code 96, the grave accent, is
\* written "GRAVE": the module's lexer has no such string).
Ascii == <<" ", "!", "\"", "#", "$", "%", "&", "'", "(", ")", "*", "+", ",", "-", ".", "/",
           "0", "1", "2", "3", "4", "5", "6", "7", "8", "9", ":", ";", "<", "=", ">", "?",
           "@", "A", "B", "C", "D", "E", "F", "G", "H", "I", "J", "K", "L", "M", "N", "O",
           "P", "Q", "R", "S", "T", "U", "V", "W", "X", "Y", "Z", "[", "\\", "]", "^", "_",
           "GRAVE", "a", "b", "c", "d", "e", "f", "g", "h", "i", "j", "k", "l", "m", "n", "o",
           "p", "q", "r", "s", "t", "u", "v", "w", "x", "y", "z", "{", "|", "}", "~">>

HexDigits == <<"0", "1", "2", "3", "4", "5", "6", "7", "8", "9", "A", "B", "C", "D", "E", "F">>

\* String.prototype.toLowerCase on one character.
ToLower(c) ==
  IF \E k \in 1..26 : UpperCase[k] = c
  THEN LowerCase[CHOOSE k \in 1..26 : UpperCase[k] = c]
  ELSE c

LowerStr(s) == [k \in 1..Len(s) |-> ToLower(s[k])]

SetMin(S) == CHOOSE x \in S : \A y \in S : x <= y

SetMax(S) == CHOOSE x \in S : \A y \in S : y <= x

\* The least element of S, or dflt when S is empty: where a search finds its
\* first hit, or that it finds none.
MinOr(S, dflt) == IF S = {} THEN dflt ELSE SetMin(S)

\* s.slice(i - 1): the text from position i (1-based) to the end.
From(s, i) == SubSeq(s, i, Len(s))

\* The literal lit stands at position i of s; ci is the regex flag i.
LitAt(s, i, lit, ci) ==
  /\ i >= 1
  /\ i + Len(lit) - 1 <= Len(s)
  /\ \A k \in 1..Len(lit) :
       IF ci THEN ToLower(s[i + k - 1]) = ToLower(lit[k]) ELSE s[i + k - 1] = lit[k]

\* The end (exclusive) of the longest run from i of characters that are in Set
\* (member = TRUE) or not in Set (member = FALSE): a greedy character class.
RunEnd(s, i, Set, member) ==
  MinOr({j \in i..Len(s) : (s[j] \in Set) # member}, Len(s) + 1)

\* String.prototype.includes
Includes(s, sub) == \E i \in 1..(Len(s) - Len(sub) + 1) : LitAt(s, i, sub, FALSE)

\* String.prototype.startsWith
StartsWith(s, pre) == LitAt(s, 1, pre, FALSE)

\* The text from the first to the last of the positions keep.
Span(s, keep) == IF keep = {} THEN << >> ELSE SubSeq(s, SetMin(keep), SetMax(keep))

\* String.prototype.trim
Trim(s) == Span(s, {j \in 1..Len(s) : s[j] \notin Space})

\* Set.prototype.add, on the elements in order of insertion.
AppendNew(seq, x) == IF \E k \in 1..Len(seq) : seq[k] = x THEN seq ELSE Append(seq, x)

\* [...new Set(seq)]: the distinct elements in order of first occurrence.
RECURSIVE Unique(_)
Unique(seq) ==
  IF seq = << >> THEN << >>
  ELSE AppendNew(Unique(SubSeq(seq, 1, Len(seq) - 1)), seq[Len(seq)])

\* Array.prototype.join
RECURSIVE Join(_, _)
Join(parts, sep) ==
  IF parts = << >> THEN << >>
  ELSE IF Len(parts) = 1 THEN parts[1]
  ELSE parts[1] \o sep \o Join(Tail(parts), sep)

\* parts.join(""): by halves, so that the evaluation stays shallow.
RECURSIVE Flatten(_)
Flatten(parts) ==
  IF parts = << >> THEN << >>
  ELSE IF Len(parts) = 1 THEN parts[1]
  ELSE Flatten(SubSeq(parts, 1, Len(parts) \div 2))
       \o Flatten(SubSeq(parts, (Len(parts) \div 2) + 1, Len(parts)))

Count(seq, x) == Cardinality({k \in 1..Len(seq) : seq[k] = x})

(***************************************************************************)
(* Citation extractor / rewriter (tools/citation_validator, as built)      *)
(***************************************************************************)

IsHex(c) == \E k \in 1..16 : HexDigits[k] = c \/ ToLower(HexDigits[k]) = c

HexVal(c) == (CHOOSE k \in 1..16 : HexDigits[k] = c \/ ToLower(HexDigits[k]) = c) - 1

\* The character of a decoded byte v.  Control characters other than tab and
\* line feed have no string in the model and are written "CTL".
ByteChar(v) ==
  IF v = 9 THEN "\t" ELSE IF v = 10 THEN "\n"
  ELSE IF v < 32 \/ v = 127 THEN "CTL" ELSE Ascii[v - 31]

\* The URIError decodeURIComponent throws.
URIError == [ok |-> FALSE, out |-> << >>]

\* The escape of byte v after the text plain, with rest the decoding of what
\* follows: a byte above 0x7F is not part of a well-formed UTF-8 sequence (the
\* model's texts hold no such sequence).
DecodeEscape(plain, v, rest) ==
  IF v > 127 THEN URIError
  ELSE [ok |-> rest.ok, out |-> plain \o <<ByteChar(v)>> \o rest.out]

RECURSIVE DecodeFrom(_, _)

\* decodeURIComponent from position i, the next "%" at position p: ok = FALSE is
\* the URIError on a "%" that does not start an escape.
DecodeAt(s, i, p) ==
  IF p > Len(s) THEN [ok |-> TRUE, out |-> SubSeq(s, i, p - 1)]
  ELSE IF p + 2 > Len(s) \/ ~IsHex(s[p + 1]) \/ ~IsHex(s[p + 2]) THEN URIError
  ELSE DecodeEscape(SubSeq(s, i, p - 1), 16 * HexVal(s[p + 1]) + HexVal(s[p + 2]),
                    DecodeFrom(s, p + 3))

DecodeFrom(s, i) == DecodeAt(s, i, RunEnd(s, i, {"%"}, FALSE))

decodeURIComponent(s) == DecodeFrom(s, 1)

\* The escape %XX of character code v.
PercentEscape(v) == <<"%", HexDigits[(v \div 16) + 1], HexDigits[(v % 16) + 1]>>

\* encodeURIComponent on one (ASCII) character: unreserved characters stay.
EncodeChar(c) ==
  IF \/ \E k \in 1..26 : c = UpperCase[k] \/ c = LowerCase[k]
     \/ c \in Digits
     \/ c \in {"-", "_", ".", "!", "~", "*", "'", "(", ")"}
  THEN <<c>>
  ELSE PercentEscape((CHOOSE k \in 1..Len(Ascii) : Ascii[k] = c) + 31)

encodeURIComponent(s) == Flatten([k \in 1..Len(s) |-> EncodeChar(s[k])])

RECURSIVE RestoreSlash(_)

\* The replacement of the first of the matches of /%2F/gi, which start at hits,
\* and of those after it.
RestoreAt(s, hits) ==
  IF hits = {} THEN s
  ELSE SubSeq(s, 1, SetMin(hits) - 1) \o <<"/">> \o RestoreSlash(From(s, SetMin(hits) + 3))

\* s.replace(/%2F/gi, "/")
RestoreSlash(s) == RestoreAt(s, {j \in 1..Len(s) : LitAt(s, j, <<"%", "2", "F">>, TRUE)})

S_doiOrgUrl == <<"h", "t", "t", "p", "s", ":", "/", "/", "d", "o", "i", ".", "o", "r", "g", "/">>

toDoiUrl(doi) == S_doiOrgUrl \o RestoreSlash(encodeURIComponent(doi))

\* :\/\/HOST\/[^)\s]+$ with flag i, matched at position j of s.
LinkHostAt(s, j, host) ==
  /\ LitAt(s, j, <<":", "/", "/">> \o host \o <<"/">>, TRUE)
  /\ j + 3 + Len(host) + 1 <= Len(s)
  /\ \A k \in (j + 3 + Len(host) + 1)..Len(s) : s[k] \notin (Space \cup {")"})

\* /\]\(https?:\/\/HOST\/[^)\s]+$/i matched at position i of s.
LinkTailAt(s, i, host) ==
  /\ LitAt(s, i, <<"]", "(", "h", "t", "t", "p">>, TRUE)
  /\ LinkHostAt(s, IF LitAt(s, i + 6, <<"s">>, TRUE) THEN i + 7 ELSE i + 6, host)

\* s.replace(/\]\(https?:\/\/HOST\/[^)\s]+$/i, ""): the leftmost match is cut.
StripLinkTail(s, host) ==
  SubSeq(s, 1, MinOr({i \in 1..Len(s) : LinkTailAt(s, i, host)}, Len(s) + 1) - 1)

S_doiOrg == <<"d", "o", "i", ".", "o", "r", "g">>

\* s.replace(/^doi:\s*/i, "")
StripDoiPrefix(s) ==
  IF LitAt(s, 1, <<"d", "o", "i", ":">>, TRUE) THEN From(s, RunEnd(s, 5, Space, TRUE)) ELSE s

\* :\/\/(?:dx\.)?doi\.org\/ at position j of s, the host at position k, cut with
\* what precedes it.
StripHostAt(s, j, k) ==
  IF LitAt(s, j, <<":", "/", "/">>, TRUE) /\ LitAt(s, k, S_doiOrg \o <<"/">>, TRUE)
  THEN From(s, k + 8) ELSE s

StripSchemeAt(s, j) ==
  StripHostAt(s, j, IF LitAt(s, j, <<":", "/", "/", "d", "x", ".">>, TRUE) THEN j + 6 ELSE j + 3)

\* s.replace(/^https?:\/\/(?:dx\.)?doi\.org\//i, "")
StripUrlPrefix(s) ==
  IF ~LitAt(s, 1, <<"h", "t", "t", "p">>, TRUE) THEN s
  ELSE StripSchemeAt(s, IF LitAt(s, 5, <<"s">>, TRUE) THEN 6 ELSE 5)

\* /%[0-9A-Fa-f]{2}/.test(s)
HasPercentEscape(s) ==
  \E i \in 1..(Len(s) - 2) : s[i] = "%" /\ IsHex(s[i + 1]) /\ IsHex(s[i + 2])

\* if (/%[0-9A-Fa-f]{2}/.test(s)) try { s = decodeURIComponent(s) } catch {}
DecodeIfEscaped(s) ==
  IF HasPercentEscape(s) /\ decodeURIComponent(s).ok THEN decodeURIComponent(s).out ELSE s

TrailingPunct == {".", ",", ";", ":", "!", "?", ")", "+", "]"}

\* s.replace(/[.,;:!?)+\]]+$/, "")
StripTrailingPunct(s) ==
  IF \A j \in 1..Len(s) : s[j] \in TrailingPunct THEN << >>
  ELSE SubSeq(s, 1, SetMax({j \in 1..Len(s) : s[j] \notin TrailingPunct}))

normalizeDoi(doi) ==
  Trim(StripTrailingPunct(DecodeIfEscaped(StripUrlPrefix(StripDoiPrefix(
    StripLinkTail(StripLinkTail(Trim(doi), S_doiOrg),
                  <<"d", "x", ".", "d", "o", "i", ".", "o", "r", "g">>))))))

\* Number.prototype.toString for a natural number.
RECURSIVE NumStr(_)
NumStr(n) ==
  IF n < 10 THEN <<HexDigits[n + 1]>> ELSE NumStr(n \div 10) \o <<HexDigits[(n % 10) + 1]>>

\* undefined where the source expects a text (the name of an author whose record
\* holds none): it has no string in the model and is written as the one
\* character "UNDEFINED".
Undefined == <<"UNDEFINED">>

\* The last of the parts of t.split(/\s+/), t being trimmed.
LastPart(t) ==
  IF \A j \in 1..Len(t) : t[j] \notin Space THEN t
  ELSE From(t, SetMax({j \in 1..Len(t) : t[j] \in Space}) + 1)

getLastName(fullName) == LastPart(Trim(fullName))

S_nd == <<"n", ".", "d", ".">>

S_Unknown == <<"U", "n", "k", "n", "o", "w", "n">>

\* year && year > 0 ? String(year) : "n.d."
YearStr(year) == IF year > 0 THEN NumStr(year) ELSE S_nd

\* The label of a citation link, from the authors and the year as text.
AuthorYear(authors, year) ==
  IF Len(authors) = 0 THEN S_Unknown \o <<" ">> \o year
  ELSE IF Len(authors) = 1 THEN getLastName(authors[1]) \o <<" ">> \o year
  ELSE IF Len(authors) = 2
    THEN getLastName(authors[1]) \o <<" ", "a", "n", "d", " ">> \o getLastName(authors[2])
         \o <<" ">> \o year
  ELSE getLastName(authors[1]) \o <<" ", "e", "t", " ", "a", "l", ".", " ">> \o year

formatCitationLinkTextFromFallback(fallback) ==
  AuthorYear(fallback.authors, YearStr(fallback.year))

\* formatCitationLinkTextFromFallback throws the TypeError of fullName.trim() when
\* an author it calls getLastName on is undefined: the first author, and the
\* second one of exactly two.
LabelThrows(fallback) ==
  /\ Len(fallback.authors) >= 1
  /\ \/ fallback.authors[1] = Undefined
     \/ Len(fallback.authors) = 2 /\ fallback.authors[2] = Undefined

NoMatch == [next |-> 0, doi |-> << >>]

\* \/[^Excl]+ from position d of s, after the digits of the registrant that
\* start at position i + 3: the end (exclusive) of the match, 0 if none.
DoiSuffixEnd(s, i, d, Excl) ==
  IF d - (i + 3) < 4 \/ d > Len(s) \/ s[d] # "/" \/ RunEnd(s, d + 1, Excl, FALSE) = d + 1
  THEN 0
  ELSE RunEnd(s, d + 1, Excl, FALSE)

\* 10\.\d{4,}\/[^Excl]+ from position i: the end (exclusive) of the match, 0 if none.
\* Each greedy class is followed by a character outside it, so the regex engine's
\* backtracking finds no other match than the greedy one.
DoiCoreEnd(s, i, Excl) ==
  IF ~LitAt(s, i, <<"1", "0", ".">>, FALSE) THEN 0
  ELSE DoiSuffixEnd(s, i, RunEnd(s, i + 3, Digits, TRUE), Excl)

\* [^\s<>")\]]
DoiStop == Space \cup {"<", ">", "\"", ")", "]"}

S_DOI == <<"D", "O", "I", ":">>

\* The match of a DOI from position j to e (exclusive, 0 if none) that the
\* literal close follows.
ClosedAt(s, j, e, close) ==
  IF e # 0 /\ LitAt(s, e, close, FALSE)
  THEN [next |-> e + Len(close), doi |-> SubSeq(s, j, e - 1)]
  ELSE NoMatch

\* (10\.\d{4,}\/[^\s<>")\]]+)<close> matched at position j.
BracketedFrom(s, j, close) == ClosedAt(s, j, DoiCoreEnd(s, j, DoiStop), close)

\* <open>DOI:\s*(10\.\d{4,}\/[^\s<>")\]]+)<close> with flag i, matched at position i.
BracketedAt(s, i, open, close) ==
  IF ~LitAt(s, i, open \o S_DOI, TRUE) THEN NoMatch
  ELSE BracketedFrom(s, RunEnd(s, i + Len(open) + 4, Space, TRUE), close)

\* The match of a DOI from position j to e (exclusive, 0 if none) that \]\([^)]+\)
\* follows, the URL ending at position u.
UrlClosedAt(s, j, e, u) ==
  IF e # 0 /\ LitAt(s, e, <<"]", "(">>, FALSE) /\ u > e + 2 /\ u <= Len(s)
  THEN [next |-> u + 1, doi |-> SubSeq(s, j, e - 1)]
  ELSE NoMatch

LinkClosedAt(s, j, e) == UrlClosedAt(s, j, e, RunEnd(s, e + 2, {")"}, FALSE))

\* /\[DOI:\s*(10\.\d{4,}\/[^\]]+)\]\([^)]+\)/gi matched at position i.
MarkdownLinkAt(s, i) ==
  IF ~LitAt(s, i, <<"[">> \o S_DOI, TRUE) THEN NoMatch
  ELSE LinkClosedAt(s, RunEnd(s, i + 5, Space, TRUE),
                    DoiCoreEnd(s, RunEnd(s, i + 5, Space, TRUE), {"]"}))

\* The citation patterns in the order the source applies them: the three of
\* citationPatterns, then the markdown-link pattern.
PatternAt(k, s, i) ==
  IF k = 1 THEN BracketedAt(s, i, <<"(">>, <<")">>)
  ELSE IF k = 2 THEN BracketedAt(s, i, <<"[">>, <<"]">>)
  ELSE IF k = 3 THEN BracketedAt(s, i, <<"(", "[">>, <<"]", ")">>)
  ELSE MarkdownLinkAt(s, i)

\* The link a callback returns: in parentheses for the three citationPatterns.
LinkText(k, link) == IF k = 4 THEN link ELSE <<"(">> \o link \o <<")">>

\* What the replace callback of pattern k returns for a verified DOI.
CitationLink(k, cleanDoi, fallback) ==
  LinkText(k, <<"[">> \o formatCitationLinkTextFromFallback(fallback) \o <<"]", "(">>
              \o toDoiUrl(cleanDoi) \o <<")">>)

\* The replace callback of pattern k on the normalized DOI of a match: the text
\* it returns and what it pushes to cited and to removed.
Callback(k, cleanDoi, fallbackByDoi) ==
  IF cleanDoi \notin DOMAIN fallbackByDoi
  THEN [text |-> << >>, cited |-> << >>, removed |-> <<cleanDoi>>]
  ELSE [text |-> CitationLink(k, cleanDoi, fallbackByDoi[cleanDoi]),
        cited |-> <<cleanDoi>>, removed |-> << >>]

\* The text copied up to a match, and what the callback gave for the match.
Replaced(acc, copied, r) ==
  [processedContent |-> acc.processedContent \o copied \o r.text,
   cited |-> acc.cited \o r.cited,
   removed |-> acc.removed \o r.removed]

RECURSIVE ReplacePass(_, _, _, _, _)

\* The match m of pattern k at position j is replaced and the search goes on
\* behind it.
ReplaceMatch(k, s, i, j, m, fallbackByDoi, acc) ==
  ReplacePass(k, s, m.next, fallbackByDoi,
              Replaced(acc, SubSeq(s, i, j - 1), Callback(k, normalizeDoi(m.doi), fallbackByDoi)))

\* The matches of pattern k from position i start at starts.
ReplaceFirst(k, s, i, starts, fallbackByDoi, acc) ==
  IF starts = {} THEN [acc EXCEPT !.processedContent = @ \o From(s, i)]
  ELSE ReplaceMatch(k, s, i, SetMin(starts), PatternAt(k, s, SetMin(starts)), fallbackByDoi, acc)

\* content.replace(pattern k, callback) from position i: the text up to the next
\* match is copied, the match is replaced by what the callback returns.  acc
\* carries the text produced so far and the callback's pushes to cited and removed.
ReplacePass(k, s, i, fallbackByDoi, acc) ==
  ReplaceFirst(k, s, i, {j \in i..Len(s) : PatternAt(k, s, j).next # 0}, fallbackByDoi, acc)

ApplyPattern(k, st, fallbackByDoi) ==
  ReplacePass(k, st.processedContent, 1, fallbackByDoi,
              [st EXCEPT !.processedContent = << >>])

\* The patterns from the k-th on, applied one after the other.
RECURSIVE ApplyPatterns(_, _, _)
ApplyPatterns(k, st, fallbackByDoi) ==
  IF k > 4 THEN st ELSE ApplyPatterns(k + 1, ApplyPattern(k, st, fallbackByDoi), fallbackByDoi)

\* The object filterAndFormatCitationsWithSourceDois returns.
Result(st) ==
  [processedContent |-> st.processedContent,
   citedDois |-> Unique(st.cited),
   removedDois |-> Unique(st.removed)]

filterAndFormatCitationsWithSourceDois(content, fallbackByDoi) ==
  Result(ApplyPatterns(1, [processedContent |-> content, cited |-> << >>, removed |-> << >>],
                       fallbackByDoi))

\* The call that would return f throws instead: a replace callback computes the
\* label of each DOI it pushes to cited, and the first label that throws ends
\* the call.
CallbackThrows(f, fallbackByDoi) ==
  \E n \in 1..Len(f.citedDois) : LabelThrows(fallbackByDoi[f.citedDois[n]])

\* Hangul syllables have no string in the module's lexer: each is written as
\* one character named by its romanisation.
S_chamgomunheon == <<"cham", "go", "mun", "heon">>

S_yoyak == <<"yo", "yak">>

S_Untitled == <<"U", "n", "t", "i", "t", "l", "e", "d">>

S_UnknownJournal == <<"U", "n", "k", "n", "o", "w", "n", " ", "J", "o", "u", "r", "n", "a", "l">>

\* authors.slice(0, 3).join(", ") + (authors.length > 3 ? ", et al." : ""), or "Unknown"
AuthorsStr(authors) ==
  IF Len(authors) = 0 THEN S_Unknown
  ELSE Join([k \in 1..(IF Len(authors) < 3 THEN Len(authors) ELSE 3) |->
               IF authors[k] = Undefined THEN << >> ELSE authors[k]], <<",", " ">>)
       \o (IF Len(authors) > 3 THEN <<",", " ", "e", "t", " ", "a", "l", ".">> ELSE << >>)

\* text || dflt
OrElse(text, dflt) == IF text # << >> THEN text ELSE dflt

\* `- ${authorsStr}. ${yearStr}. ${titleStr}. *${journalStr}*. [DOI: ${doi}](${toDoiUrl(doi)})`
Line(authorsStr, yearStr, titleStr, journalStr, doi) ==
  <<"-", " ">> \o authorsStr \o <<".", " ">> \o yearStr \o <<".", " ">>
  \o titleStr \o <<".", " ", "*">> \o journalStr
  \o <<"*", ".", " ", "[">> \o S_DOI \o <<" ">> \o doi \o <<"]", "(">>
  \o toDoiUrl(doi) \o <<")">>

\* The line of a DOI the secondary lookup holds.
ValidatedLine(validated) ==
  Line(AuthorsStr(validated.authors), YearStr(validated.year),
       OrElse(validated.title, S_Untitled), OrElse(validated.journal, S_UnknownJournal),
       validated.doi)

\* The line of a DOI from the fallback lookup.
FallbackLine(fallback, doi) ==
  Line(AuthorsStr(fallback.authors), YearStr(fallback.year),
       OrElse(fallback.title, S_Untitled), OrElse(fallback.journal, S_UnknownJournal), doi)

\* The line of the normalized DOI doi.
LineOf(doi, validatedDois, fallbackByDoi) ==
  IF doi \in DOMAIN validatedDois THEN ValidatedLine(validatedDois[doi])
  ELSE IF doi \in DOMAIN fallbackByDoi THEN FallbackLine(fallbackByDoi[doi], doi)
  ELSE Line(S_Unknown, S_nd, S_Untitled, S_UnknownJournal, doi)

\* One line of the references section: the callback of uniqueCitedDois.map.
RefLine(rawDoi, validatedDois, fallbackByDoi) ==
  LineOf(normalizeDoi(rawDoi), validatedDois, fallbackByDoi)

\* new Map(): the empty secondary lookup the orchestrator passes.
EmptyMap == [d \in {} |-> [doi |-> << >>]]

\* The references section of the DOIs uniqueCitedDois.
ReferencesOf(uniqueCitedDois, validatedDois, fallbackByDoi, language) ==
  (IF language = "ko" THEN <<"#", "#", " ">> \o S_chamgomunheon
   ELSE <<"#", "#", " ", "R", "e", "f", "e", "r", "e", "n", "c", "e", "s">>)
  \o <<"\n", "\n">>
  \o Join([k \in 1..Len(uniqueCitedDois) |->
             RefLine(uniqueCitedDois[k], validatedDois, fallbackByDoi)], <<"\n", "\n">>)
  \o <<"\n">>

\* A references section with one line for every element of citedDois.
generateReferencesSectionNoDedup(citedDois, validatedDois, fallbackByDoi, language) ==
  ReferencesOf(citedDois, validatedDois, fallbackByDoi, language)

generateReferencesSection(citedDois, validatedDois, fallbackByDoi, language) ==
  ReferencesOf(Unique(citedDois), validatedDois, fallbackByDoi, language)

(***************************************************************************)
(* Text clean-up of the orchestrator                                       *)
(***************************************************************************)

\* \s+.+$ of the header pattern from position h, behind the number signs: \s+ is
\* greedy and gives characters back until .+ finds a character that is not a
\* line break.  The end (exclusive) of the match, 0 if none.
HeaderFrom(s, h) ==
  IF \A q \in (h + 1)..RunEnd(s, h, Space, TRUE) : q > Len(s) \/ s[q] = "\n" THEN 0
  ELSE RunEnd(s, SetMax({q \in (h + 1)..RunEnd(s, h, Space, TRUE) :
                           q <= Len(s) /\ s[q] # "\n"}),
              {"\n"}, FALSE)

\* /^##?\s+.+$/gm matched at position i: the end (exclusive) of the match, 0 if
\* none.
HeaderEnd(s, i) ==
  IF ~(i = 1 \/ s[i - 1] = "\n") \/ i > Len(s) \/ s[i] # "#" THEN 0
  ELSE HeaderFrom(s, IF i + 1 <= Len(s) /\ s[i + 1] = "#" THEN i + 2 ELSE i + 1)

RECURSIVE StripHeaders(_)

\* The first of the headers, which start at starts, is cut: a match ends at the
\* end of a line, so what follows it starts with a line break (or is empty) and
\* is searched in turn.
StripFirstHeader(s, starts) ==
  IF starts = {} THEN s
  ELSE SubSeq(s, 1, SetMin(starts) - 1) \o StripHeaders(From(s, HeaderEnd(s, SetMin(starts))))

\* content.replace(/^##?\s+.+$/gm, "")
StripHeaders(s) == StripFirstHeader(s, {j \in 1..Len(s) : HeaderEnd(s, j) # 0})

S_references == <<"r", "e", "f", "e", "r", "e", "n", "c", "e", "s">>

S_bibliography == <<"b", "i", "b", "l", "i", "o", "g", "r", "a", "p", "h", "y">>

\* The tests of the predicate of lines.findIndex on t = line.trim().toLowerCase().
IsMarkerText(t) ==
  \/ t \in {S_references, S_bibliography, S_chamgomunheon,
            <<"w", "o", "r", "k", "s", " ", "c", "i", "t", "e", "d">>}
  \/ StartsWith(t, S_references \o <<":">>)
  \/ StartsWith(t, S_bibliography \o <<":">>)
  \/ StartsWith(t, S_chamgomunheon \o <<":">>)

\* The predicate of lines.findIndex in stripInlineReferencesBlock.
IsReferencesMarker(line) == IsMarkerText(LowerStr(Trim(line)))

\* The lines of text.split("\n") are the stretches between line breaks: line
\* number n (from 0) starts after the n-th line break.
LineStarts(text) == {1} \cup {j + 1 : j \in {q \in 1..Len(text) : text[q] = "\n"}}

LineAt(text, start) == SubSeq(text, start, RunEnd(text, start, {"\n"}, FALSE) - 1)

\* lines.slice(0, markerIndex).join("\n").trim(), the marker lines starting at marks.
LinesBefore(text, marks) ==
  IF marks = {} THEN text ELSE Trim(SubSeq(text, 1, SetMin(marks) - 2))

stripInlineReferencesBlock(text) ==
  LinesBefore(text, {st \in LineStarts(text) : IsReferencesMarker(LineAt(text, st))})

\* excludedTitles of synthesizeReport
excludedTitles ==
  {<<"e", "x", "e", "c", "u", "t", "i", "v", "e", " ", "s", "u", "m", "m", "a", "r", "y">>,
   S_yoyak, <<"s", "u", "m", "m", "a", "r", "y">>, S_references, S_chamgomunheon,
   S_bibliography}

\* A filter that keeps every section.
RetainsEveryTitle(title) == TRUE

\* !excludedTitles.some(t => s.title.toLowerCase().includes(t))
IsRetainedTitle(title) == ~\E t \in excludedTitles : Includes(LowerStr(title), t)

\* The placeholder report.  No operation of the source looks inside its heading
\* text or its sentences: each is written as one character.
noSourcesReport(language) ==
  IF language = "ko"
  THEN <<"#", "#", " ", "bogoseo saengseong bulga", "\n", "\n",
         "geomsaek dangyeeseo DOIga hwagindoen munheoneul chatji mothae bogoseoreul saengseonghal su eopseumnida.",
         " ", "geomsaek jiruieoreul deo guchehwahageona beomwireul neolpyeo dasi sidohaseyo.", "\n">>
  ELSE <<"#", "#", " ", "Report Unavailable", "\n", "\n",
         "No DOI-verified sources were found during search, so a report cannot be generated safely.",
         " ", "Please refine or broaden the query and try again.", "\n">>

summaryTitle(language) ==
  IF language = "ko" THEN <<"#", "#", " ">> \o S_yoyak
  ELSE <<"#", "#", " ", "E", "x", "e", "c", "u", "t", "i", "v", "e", " ",
         "S", "u", "m", "m", "a", "r", "y">>

(***************************************************************************)
(* Bounds and the inputs the collaborators may return                      *)
(***************************************************************************)

\* pause / resume / cancel / updateQuery calls the user makes in all.
MaxCalls == 3

\* The session ids the callers use: 1 is the id startResearch hands out, 2 is an
\* id of no session.
Sessions == {1, 2}

Languages == {"en", "ko"}

Section(title, description) == [title |-> title, description |-> description]

SecA == Section(<<"A", "i", "m", "s">>, <<"a">>)

SecB == Section(<<"D", "a", "t", "a">>, <<"b">>)

\* The outlines the planning call may return.
Plans == {<<SecA>>, <<SecA, SecB>>}

Source(doi, authors, year) ==
  [title |-> <<"T">>, authors |-> authors, journal |-> <<"J">>, year |-> year, doi |-> doi]

\* The retrieved paper of the end-to-end scenario B.
SrcReal == Source(<<"1", "0", ".", "1", "/", "r", "e", "a", "l">>, <<<<"A", "n", "n", " ", "K", "i", "m">>>>, 2020)

\* What one search may return.
SearchReturns == {<< >>, <<SrcReal>>}

S_fakeDoi == <<"1", "0", ".", "1", "/", "f", "a", "k", "e">>

\* The section synthesis response of scenario B.
SectionResponses == { <<"x", " ", "(", "D", "O", "I", ":", " ", "1", "0", ".", "1", "/", "f", "a", "k", "e", ")", " ", "y", " ", "(", "D", "O", "I", ":", " ", "1", "0", ".", "1", "/", "r", "e", "a", "l", ")", ".">> }

SummaryResponses == { <<"s">> }

(***************************************************************************)
(* The research orchestrator                                               *)
(***************************************************************************)

VARIABLES
  activeSession,    \* this.activeSession (NoSession is null)
  abortController,  \* this.abortController: the session whose start created it, 0 is null
  aborted,          \* signal.aborted of the controller each start created
  isPaused,         \* this.isPaused
  db,               \* the research_sessions rows, by session id
  messages,         \* the rows inserted into messages
  chatTitles,       \* whether generateTitle has set the chat's title
  events,           \* what sendUpdate has sent to the renderer, in order
  run,              \* each runResearch invocation: where it is suspended, and its locals
  calls,            \* pause / resume / cancel / updateQuery calls made so far
  cite,             \* one call of filterAndFormatCitationsWithSourceDois: input and result
  search,           \* one call of AcademicSearchTool.search: where it is, and its locals
  call,             \* one call of a function of the citation module: input and result
  built             \* whether the orchestrator is the bundle dist-electron/main.js

vars == <<activeSession, abortController, aborted, isPaused, db, messages, chatTitles,
          events, run, calls, cite, search, call, built>>

NoPlan == << >>

\* The query a session is started with, and the one updateQuery is called with.
S_query == <<"q">>

S_newQuery == <<"q", "2">>

\* null where the source expects a text: it has no string in the model and is
\* written as the one character "NULL".
Null == <<"NULL">>

NoSession ==
  [id |-> 0, query |-> << >>, status |-> "none", plan |-> NoPlan, currentStep |-> 0,
   sources |-> << >>, reportContent |-> << >>]

NoRow == [status |-> "none", plan |-> NoPlan, currentStep |-> 0]

\* A runResearch invocation that has not been started.
IdleRun ==
  [pc |-> "idle", at |-> "none", language |-> "en", plan |-> NoPlan, i |-> 0,
   keywords |-> Null, sources |-> << >>, sectionResults |-> << >>,
   reportContent |-> << >>, k |-> 0]

\* The state as one record, so that the statements of a handler compose.
St ==
  [as |-> activeSession, ac |-> abortController, ab |-> aborted, ip |-> isPaused,
   db |-> db, msgs |-> messages, ct |-> chatTitles, ev |-> events, run |-> run]

Set(st) ==
  /\ activeSession' = st.as
  /\ abortController' = st.ac
  /\ aborted' = st.ab
  /\ isPaused' = st.ip
  /\ db' = st.db
  /\ messages' = st.msgs
  /\ chatTitles' = st.ct
  /\ events' = st.ev
  /\ run' = st.run
  /\ cite' = cite
  /\ search' = search
  /\ call' = call
  /\ built' = built

Ev(type, s, idx, text) == [type |-> type, run |-> s, idx |-> idx, text |-> text]

\* sendUpdate, with the main window open.
sendUpdate(st, e) == [st EXCEPT !.ev = Append(@, e)]

\* A finally block that leaves the references set.
FinallyKeepsSession(st, s) == [st EXCEPT !.run[s].pc = "done"]

\* The finally block of runResearch.
Finally(st, s) == [st EXCEPT !.as = NoSession, !.ac = 0, !.run[s].pc = "done"]

\* A rethrown error that no handler reports.
CatchErrorNoEvent(st, s, message) == Finally([st EXCEPT !.db[s].status = "completed"], s)

\* catch: any other error is rethrown after the status update, the finally block
\* runs, and the catch handler startResearch attached sends the error event.
CatchError(st, s, message) ==
  sendUpdate(Finally([st EXCEPT !.db[s].status = "completed"], s),
             Ev("error", s, 0, message))

\* A catch block without the branch for 'Research cancelled'.
CatchCancelledAsError(st, s) == CatchError(st, s, <<"Research cancelled">>)

\* A catch block that reports the cancellation without persisting it.
CatchCancelledNoStatus(st, s) ==
  Finally(sendUpdate(st, Ev("cancelled", s, 0, <<"Research cancelled by user">>)), s)

\* catch: error.message === 'Research cancelled'
CatchCancelled(st, s) ==
  Finally(sendUpdate([st EXCEPT !.db[s].status = "cancelled"],
                     Ev("cancelled", s, 0, <<"Research cancelled by user">>)), s)

E_TypeError == <<"TypeError: Cannot set properties of null">>

E_Chat == <<"chat error">>

E_NotAString == <<"TypeError: Cannot read properties of undefined (reading 'trim')">>

E_NoPlan == <<"Failed to create research plan">>

E_NoSections == <<"TypeError: Cannot read properties of undefined (reading 'map')">>

\* this.abortController?.signal.aborted
IsAborted(st) == st.ac # 0 /\ st.ab[st.ac]

Plan(st, s) == st.run[s].plan

\* sectionResults.flatMap((s) => s.sources)
AllSources(sectionResults) ==
  Flatten([n \in 1..Len(sectionResults) |-> sectionResults[n].sources])

\* The callback of sectionResults.filter in synthesizeReport.
KeepSection(r) == IsRetainedTitle(r.title)

FilteredSections(sectionResults) == SelectSeq(sectionResults, KeepSection)

\* The ReferenceFallbackInfo of a source.
FallbackInfo(source) ==
  [authors |-> source.authors, year |-> source.year,
   title |-> source.title, journal |-> source.journal]

\* The map of the sources by their keys (normalized DOIs): the first source of
\* each key wins.
FallbackOf(allSources, keys) ==
  [d \in {keys[n] : n \in 1..Len(keys)} |->
     FallbackInfo(allSources[SetMin({n \in 1..Len(keys) : keys[n] = d})])]

\* The fallbackByDoi map synthesizeReport builds.
FallbackByDoi(allSources) ==
  FallbackOf(allSources, [n \in 1..Len(allSources) |-> normalizeDoi(allSources[n].doi)])

\* stripInlineReferencesBlock(content.replace(/^##?\s+.+$/gm, '').trim())
CleanContent(content) == stripInlineReferencesBlock(Trim(StripHeaders(content)))

\* The "=== Complete ===" statements of runResearch, up to the chat call of generateTitle.
Complete(st, s) ==
  IF st.as.id = 0 THEN CatchError([st EXCEPT !.db[s].status = "completed"], s, E_TypeError)
  ELSE [sendUpdate([st EXCEPT !.db[s].status = "completed"],
                   Ev("completed", s, 0, st.as.reportContent))
          EXCEPT !.msgs = Append(@, [chatId |-> s, content |-> st.as.reportContent,
                                     sources |-> st.as.sources]),
                 !.run[s].pc = "title"]

\* The rewritten text f with the references section of the DOIs it cites.
WithReferences(f, fallbackByDoi, language) ==
  f.processedContent
  \o generateReferencesSection(f.citedDois, EmptyMap, fallbackByDoi, language)

RECURSIVE CitationTry(_, _, _, _)

\* After the report_replace event of a pass.  With no active session the
\* assignment to this.activeSession!.sources throws inside the try block: the
\* catch block runs the pass again, over the text the first pass produced, and
\* the assignment after the block throws in turn.
AfterPass(st, s, fallbackByDoi, inCatch) ==
  IF st.as.id # 0
  THEN Complete([st EXCEPT !.as.sources = AllSources(st.run[s].sectionResults),
                           !.as.reportContent = st.run[s].reportContent], s)
  ELSE IF inCatch THEN CatchError(st, s, E_TypeError)
  ELSE CitationTry(st, s, fallbackByDoi, TRUE)

\* this.sendUpdate({ event_type: 'report_replace', data: { content: reportContent } })
ReplaceReport(st, s) == sendUpdate(st, Ev("report_replace", s, 0, st.run[s].reportContent))

\* The bundle sends the references section once more, as a last report_chunk,
\* after the report_replace event; the TypeScript source does not.
FinalChunk(st, s, referencesSection) ==
  IF built THEN sendUpdate(st, Ev("report_chunk", s, 1, referencesSection)) ELSE st

\* A citation pass whose call of filterAndFormatCitationsWithSourceDois would
\* return f.  When the call throws in the try block the catch block makes the
\* same call, and what that one throws leaves synthesizeReport.
PassResult(st, s, fallbackByDoi, inCatch, f) ==
  IF CallbackThrows(f, fallbackByDoi)
  THEN IF inCatch THEN CatchError(st, s, E_NotAString)
       ELSE CitationTry(st, s, fallbackByDoi, TRUE)
  ELSE AfterPass(FinalChunk(ReplaceReport([st EXCEPT !.run[s].reportContent =
                                                       WithReferences(f, fallbackByDoi,
                                                                      st.run[s].language)],
                                          s),
                            s, generateReferencesSection(f.citedDois, EmptyMap, fallbackByDoi,
                                                         st.run[s].language)),
                 s, fallbackByDoi, inCatch)

\* One citation pass over reportContent, in the try block or in its catch block.
CitationTry(st, s, fallbackByDoi, inCatch) ==
  PassResult(st, s, fallbackByDoi, inCatch,
             filterAndFormatCitationsWithSourceDois(st.run[s].reportContent, fallbackByDoi))

\* The citation validation block of synthesizeReport and the statements after it.
CitationPhase(st, s) ==
  CitationTry(sendUpdate(st, Ev("status", s, 0, <<"Validating DOI citations">>)), s,
              FallbackByDoi(AllSources(st.run[s].sectionResults)), FALSE)

RECURSIVE checkPauseCancel(_, _, _)
RECURSIVE AfterPoll(_, _, _)

\* The section loop of synthesizeReport, before section k of the filtered list.
ReportLoop(st, s) ==
  IF st.run[s].k <= Len(FilteredSections(st.run[s].sectionResults))
  THEN checkPauseCancel(st, s, "report")
  ELSE CitationPhase(st, s)

\* reportContent += chunk, the report_chunk event and the assignment to
\* this.activeSession!.reportContent; then the section loop goes on.
AppendChunk(st, s, chunk) ==
  IF st.as.id = 0
  THEN CatchError(sendUpdate(st, Ev("report_chunk", s, 0, chunk)), s, E_TypeError)
  ELSE ReportLoop([sendUpdate(st, Ev("report_chunk", s, 0, chunk))
                     EXCEPT !.as.reportContent = st.run[s].reportContent \o chunk,
                            !.run[s].reportContent = @ \o chunk,
                            !.run[s].k = @ + 1], s)

\* `## ${section.title}\n\n${cleanContent}\n\n`
SectionContent(section) ==
  <<"#", "#", " ">> \o section.title \o <<"\n", "\n">>
  \o CleanContent(section.content) \o <<"\n", "\n">>

\* One pass of the section loop of synthesizeReport.
AppendReportSection(st, s) ==
  AppendChunk(st, s, SectionContent(FilteredSections(st.run[s].sectionResults)[st.run[s].k]))

\* The branch of synthesizeReport for a run without sources, and "=== Complete ===".
NoSources(st, s, report) ==
  IF st.as.id = 0
  THEN CatchError(sendUpdate(st, Ev("report_chunk", s, 1, report)), s, E_TypeError)
  ELSE Complete([sendUpdate(st, Ev("report_chunk", s, 1, report))
                   EXCEPT !.as.reportContent = report,
                          !.as.sources = << >>,
                          !.run[s].reportContent = report], s)

\* "=== Phase 3 ===" of runResearch and synthesizeReport up to its first chat call.
BeginSynthesis(st, s) ==
  IF AllSources(st.run[s].sectionResults) = << >>
  THEN NoSources(sendUpdate(st, Ev("status", s, 0, <<"Synthesizing report...">>)), s,
                 noSourcesReport(st.run[s].language))
  ELSE [sendUpdate(sendUpdate(st, Ev("status", s, 0, <<"Synthesizing report...">>)),
                   Ev("status", s, 0, <<"Writing executive summary...">>))
          EXCEPT !.run[s].pc = "summary"]

\* A loop body that announces the next section along with section i, as a
\* fan-out over the sections would.
BeginSectionFanOut(st, s) ==
  IF st.as.id = 0 THEN CatchError(st, s, E_TypeError)
  ELSE [sendUpdate(sendUpdate(sendUpdate([st EXCEPT !.as.currentStep = st.run[s].i,
                                                    !.db[s].currentStep = st.run[s].i],
                                         Ev("research_started", s, st.run[s].i,
                                            Plan(st, s)[st.run[s].i + 1].title)),
                              Ev("research_started", s, st.run[s].i + 1, << >>)),
                   Ev("tool_start", s, st.run[s].i, <<"keyword_generation">>))
          EXCEPT !.run[s].pc = "keywords"]

\* The body of the research loop for section i, up to the chat call of
\* generateSearchKeywords.
BeginSection(st, s) ==
  IF st.as.id = 0 THEN CatchError(st, s, E_TypeError)
  ELSE [sendUpdate(sendUpdate([st EXCEPT !.as.currentStep = st.run[s].i,
                                         !.db[s].currentStep = st.run[s].i],
                              Ev("research_started", s, st.run[s].i,
                                 Plan(st, s)[st.run[s].i + 1].title)),
                   Ev("tool_start", s, st.run[s].i, <<"keyword_generation">>))
          EXCEPT !.run[s].pc = "keywords"]

\* What follows a checkPauseCancel that returned.
AfterPoll(st, s, at) ==
  IF at = "section" THEN BeginSection(st, s)
  ELSE IF at = "synthesis" THEN BeginSynthesis(st, s)
  ELSE AppendReportSection(st, s)

\* A check that looks at the cancellation only, never at isPaused.
checkPauseCancelNoWait(st, s, at) ==
  IF IsAborted(st) THEN CatchCancelled(st, s) ELSE AfterPoll(st, s, at)

\* checkPauseCancel up to its first timer; at names the call site.
checkPauseCancel(st, s, at) ==
  IF IsAborted(st) THEN CatchCancelled(st, s)
  ELSE IF st.ip THEN [st EXCEPT !.run[s].pc = "paused", !.run[s].at = at]
  ELSE AfterPoll(st, s, at)

\* The head of the research loop: the check before the next section, or the one
\* before synthesis.
ResearchLoop(st, s) ==
  checkPauseCancel(st, s, IF st.run[s].i < Len(Plan(st, s)) THEN "section" ELSE "synthesis")

(***************************************************************************)
(* One call of the citation rewriter on a text of markers                  *)
(***************************************************************************)

\* Segments (markers or plain words) in one text handed to the rewriter.
MaxMarkers == 2

S_citedFake == <<"1", "0", ".", "1", "2", "3", "4", "/", "f", "a", "k", "e">>

S_citedReal == <<"1", "0", ".", "1", "2", "3", "4", "/", "r", "e", "a", "l">>

\* The same DOI followed by a full stop, which normalizeDoi strips.
S_citedRealDot == <<"1", "0", ".", "1", "2", "3", "4", "/", "r", "e", "a", "l", ".">>

CitedTexts == {S_citedFake, S_citedReal, S_citedRealDot}

\* The one paper the search retrieved.
SrcCited == Source(S_citedReal, <<<<"A", "n", "n", " ", "K", "i", "m">>, <<"B", "o", " ", "L", "e", "e">>, <<"C", "y", " ", "R", "o", "e">>>>, 2020)

\* A segment of the text: form 0 is a plain word, forms 1 to 4 are the marker
\* forms (DOI: d), [DOI: d], ([DOI: d]) and [DOI: d](url).
Segment(form, doi) == [form |-> form, doi |-> doi]

Segments == {Segment(0, << >>)} \cup {Segment(f, d) : f \in 1..4, d \in CitedTexts}

SegmentLists == UNION {[1..n -> Segments] : n \in 1..MaxMarkers}

MarkerText(seg) ==
  IF seg.form = 0 THEN <<"x">>
  ELSE IF seg.form = 1 THEN <<"(">> \o S_DOI \o <<" ">> \o seg.doi \o <<")">>
  ELSE IF seg.form = 2 THEN <<"[">> \o S_DOI \o <<" ">> \o seg.doi \o <<"]">>
  ELSE IF seg.form = 3 THEN <<"(", "[">> \o S_DOI \o <<" ">> \o seg.doi \o <<"]", ")">>
  ELSE <<"[">> \o S_DOI \o <<" ">> \o seg.doi \o <<"]", "(">> \o S_doiOrgUrl \o seg.doi \o <<")">>

\* The text the segments make, one blank between two segments.
ContentOf(segs) == Join([n \in 1..Len(segs) |-> MarkerText(segs[n])], <<" ">>)

\* new Map(): the fallback map of a run that retrieved nothing.
NoFallback == [d \in {} |-> FallbackInfo(SrcCited)]

\* The fallback maps synthesizeReport may build: nothing retrieved, or the paper.
Fallbacks == {NoFallback, FallbackByDoi(<<SrcCited>>)}

NoResult == [processedContent |-> << >>, citedDois |-> << >>, removedDois |-> << >>]

NoCite == [segs |-> << >>, fallbackByDoi |-> NoFallback, done |-> FALSE, out |-> NoResult]

(***************************************************************************)
(* The academic search tool (AcademicSearchTool)                           *)
(***************************************************************************)

\* private maxResults = 20
maxResults == 20

\* s.split(','), j being the place of the first comma of s (0 when it has none).
RECURSIVE Split(_)
SplitFrom(s, j) ==
  IF j = 0 THEN <<s>> ELSE <<SubSeq(s, 1, j - 1)>> \o Split(From(s, j + 1))

Split(s) == SplitFrom(s, MinOr({j \in 1..Len(s) : s[j] = ","}, 0))

TrimAll(parts) == [k \in 1..Len(parts) |-> Trim(parts[k])]

NonEmpty(s) == s # << >>

\* query.split(',').map((k) => k.trim()).filter(Boolean)
KeywordsOf(query) == SelectSeq(TrimAll(Split(query)), NonEmpty)

S_AND == <<" ", "A", "N", "D", " ">>

S_OR == <<" ", "O", "R", " ">>

\* keywords.map((k) => `(${k})`)
Quoted(keywords) == [k \in 1..Len(keywords) |-> <<"(">> \o keywords[k] \o <<")">>]

\* `${primary} AND (${rest})`, pushed when there are more than two keywords
Tier2(quoted) ==
  IF Len(quoted) > 2
  THEN << quoted[1] \o S_AND \o <<"(">> \o Join(Tail(quoted), S_OR) \o <<")">> >>
  ELSE << >>

\* A construction that pushes the middle tier for two keywords as well.
TiersAlwaysThree(quoted) ==
  <<Join(quoted, S_AND),
    quoted[1] \o S_AND \o <<"(">> \o Join(Tail(quoted), S_OR) \o <<")">>,
    Join(quoted, S_OR)>>

\* The queries of two keywords or more, from the quoted keywords.
Tiers(quoted) == <<Join(quoted, S_AND)>> \o Tier2(quoted) \o <<Join(quoted, S_OR)>>

buildTieredQueries(keywords) ==
  IF Len(keywords) = 0 THEN << >>
  ELSE IF Len(keywords) = 1 THEN <<keywords[1]>>
  ELSE Tiers(Quoted(keywords))

\* const queries = keywords.length > 1 ? this.buildTieredQueries(keywords) : [query]
QueriesFor(query, keywords) ==
  IF Len(keywords) > 1 THEN buildTieredQueries(keywords) ELSE <<query>>

\* An article of the summary response of PubMed: its title and the value of its
\* articleid of type doi (empty when it has none).
Article(title, doi) == [title |-> title, doi |-> doi]

\* An AcademicSource, by the fields the merge reads and the title.
Record(title, doi, source) == [title |-> title, doi |-> doi, source |-> source]

HasDoi(r) == r.doi # << >>

PubMedRecord(article) == Record(article.title, article.doi, "pubmed")

\* The loop of executePubMedSearch over the articles: those without a DOI are skipped.
PubMedRecordsOf(articles) == [k \in 1..Len(articles) |-> PubMedRecord(articles[k])]

PubMedRecords(articles) == PubMedRecordsOf(SelectSeq(articles, HasDoi))

\* Where [^\s<>"]+ ends when it starts at d + 1, d being the place of the slash;
\* 0 when it matches nothing.
DoiTailEnd(e, d) == IF e > d + 1 THEN e ELSE 0

\* The match of DOI_REGEX from i goes on at d, where the digits after "10." end:
\* four digits or more, then a slash.
DoiDigitsEnd(text, i, d) ==
  IF d - (i + 3) >= 4 /\ d <= Len(text) /\ text[d] = "/"
  THEN DoiTailEnd(RunEnd(text, d + 1, Space \cup {"<", ">", "\""}, FALSE), d)
  ELSE 0

\* The end (exclusive) of the match of /10\.\d{4,}\/[^\s<>"]+/ at i, 0 when none.
DoiMatchEnd(text, i) ==
  IF LitAt(text, i, <<"1", "0", ".">>, FALSE)
  THEN DoiDigitsEnd(text, i, RunEnd(text, i + 3, Digits, TRUE))
  ELSE 0

\* doiMatches ? doiMatches[0] : '', i being the place of the first match.
DoiFrom(text, i) == IF i = 0 THEN << >> ELSE SubSeq(text, i, DoiMatchEnd(text, i) - 1)

\* (url + ' ' + snippet).match(DOI_REGEX), first match
ExtractDoi(text) ==
  DoiFrom(text, MinOr({i \in 1..Len(text) : DoiMatchEnd(text, i) # 0}, 0))

\* An item of the web search response.
Item(title, url, snippet) == [title |-> title, url |-> url, snippet |-> snippet]

ScholarRecord(item) ==
  Record(item.title, ExtractDoi(item.url \o <<" ">> \o item.snippet), "scholar")

ScholarRecordsOf(items) == [k \in 1..Len(items) |-> ScholarRecord(items[k])]

\* The loop of searchGoogleScholar over the items: those without a DOI are skipped.
ScholarRecords(items) == SelectSeq(ScholarRecordsOf(items), HasDoi)

DoisOf(records) == [k \in 1..Len(records) |-> records[k].doi]

\* Array.from(new Map(entries).values()): a key keeps the place of its first
\* entry and holds the value of its last one.
MapValues(records, keys) ==
  [k \in 1..Len(keys) |->
     records[SetMax({n \in 1..Len(records) : records[n].doi = keys[k]})]]

\* Array.from(new Map(withDoi.map((r) => [r.doi, r])).values())
UniqueByDoi(withDoi) == MapValues(withDoi, Unique(DoisOf(withDoi)))

\* uniqueByDoi.slice(0, this.maxResults)
Slice(records) == SubSeq(records, 1, IF Len(records) < maxResults THEN Len(records) ELSE maxResults)

\* The statements of search after the backends: filter, deduplicate, truncate.
Merge(results) == Slice(UniqueByDoi(SelectSeq(results, HasDoi)))

\* The text of a number of the inputs, as a DOI of its own.
DoiNo(n) == <<"1", "0", ".", "1", "2", "3", "4", "/">> \o NumStr(n)

\* The queries the orchestrator may pass: one keyword, comma-separated keywords
\* (with blanks and an empty piece), and the empty text.
Queries ==
  { <<"a">>, <<"a", ",", "b">>, <<"a", ",", " ", "b", " ", ",", "c">>,
    <<"a", ",", ",", "b">>, <<"a", ",", "b", ",", "c", ",", "d">>, << >> }

\* Most articles PubMed returns for retmax = 20 in the model, and most items of a
\* web search response.
MaxArticles == 10

MaxItems == 21

\* What the summary response of a tier may hold.
PubMedReturns ==
  { << >>,
    <<Article(<<"P">>, << >>)>>,
    <<Article(<<"P">>, S_citedReal)>>,
    <<Article(<<"P">>, S_citedReal), Article(<<"Q">>, << >>), Article(<<"R">>, DoiNo(1))>>,
    [n \in 1..MaxArticles |-> Article(<<"P">>, DoiNo(n))] }

S_url == <<"h", "t", "t", "p", "s", ":", "/", "/", "x", ".", "o", "r", "g", "/">>

\* What the web search may return: nothing, a page without DOI, the paper PubMed
\* knows (by its doi.org address, and by a snippet that cites it at the end of a
\* sentence), and more pages than the cap.
ScholarReturns ==
  { << >>,
    <<Item(<<"S">>, S_url, <<"n", "o", "n", "e">>)>>,
    <<Item(<<"S">>, S_doiOrgUrl \o S_citedReal, <<"s">>)>>,
    <<Item(<<"S">>, S_url, <<"s", "e", "e", " ">> \o S_citedRealDot)>>,
    [n \in 1..MaxItems |-> Item(<<"S">>, S_doiOrgUrl \o DoiNo(n), <<"s">>)] }

\* No call of a function of the citation module.
NoCall == [fn |-> "none"]

\* A call of search that has not been made.
NoSearch ==
  [pc |-> "idle", query |-> << >>, initialized |-> FALSE, queries |-> << >>, asked |-> << >>,
   results |-> << >>, pubmed |-> << >>, scholar |-> << >>, failed |-> {}, out |-> << >>,
   threw |-> FALSE]

TypeOK ==
  /\ activeSession.id \in {0} \cup Sessions
  /\ abortController \in {0} \cup Sessions
  /\ aborted \in [Sessions -> BOOLEAN]
  /\ isPaused \in BOOLEAN
  /\ \A s \in Sessions :
       /\ db[s].status \in {"none", "running", "paused", "cancelled", "completed"}
       /\ run[s].pc \in {"idle", "plan", "keywords", "search", "synthSection", "paused",
                         "summary", "title", "done"}
  /\ calls \in 0..MaxCalls
  /\ built \in BOOLEAN
  /\ search.pc \in {"idle", "pubmed", "scholar", "done"}

Init ==
  /\ activeSession = NoSession
  /\ abortController = 0
  /\ aborted = [s \in Sessions |-> FALSE]
  /\ isPaused = FALSE
  /\ db = [s \in Sessions |-> NoRow]
  /\ messages = << >>
  /\ chatTitles = [s \in Sessions |-> FALSE]
  /\ events = << >>
  /\ run = [s \in Sessions |-> IdleRun]
  /\ calls = 0
  /\ cite = NoCite
  /\ search = NoSearch
  /\ call = NoCall
  /\ built = FALSE

\* startResearch, and runResearch up to the chat call of createPlan.
StartBody(s, language) ==
  sendUpdate([St EXCEPT !.ac = s, !.ab[s] = FALSE, !.ip = FALSE,
                        !.db[s] = [status |-> "running", plan |-> NoPlan, currentStep |-> 0],
                        !.as = [id |-> s, query |-> S_query, status |-> "running",
                                plan |-> NoPlan, currentStep |-> 0, sources |-> << >>,
                                reportContent |-> << >>],
                        !.run[s] = [IdleRun EXCEPT !.pc = "plan", !.language = language]],
             Ev("status", s, 0, <<"Creating research plan...">>))

\* start, called as the specification asks of the caller: one session at a time.
StartResearch(s, language) ==
  /\ run[s].pc = "idle"
  /\ activeSession = NoSession
  /\ Set(StartBody(s, language))
  /\ UNCHANGED calls

\* The chat call of createPlan settles: it throws, or its content holds no JSON
\* object (or one JSON.parse rejects), or a JSON object without sections, or a plan.
PlanSettles(s, outcome, plan) ==
  /\ run[s].pc = "plan"
  /\ UNCHANGED calls
  /\ IF outcome = "throws" THEN Set(CatchError(St, s, E_Chat))
     ELSE IF outcome = "noJson" THEN Set(CatchError(St, s, E_NoPlan))
     ELSE IF St.as.id = 0 THEN Set(CatchError([St EXCEPT !.db[s].plan = <<"saved">>], s, E_TypeError))
     ELSE IF outcome = "noSections"
       THEN Set(CatchError([St EXCEPT !.db[s].plan = <<"{}">>, !.as.plan = <<"{}">>],
                           s, E_NoSections))
     ELSE Set(ResearchLoop(sendUpdate([St EXCEPT !.db[s].plan = plan, !.as.plan = plan,
                                                 !.run[s].plan = plan, !.run[s].i = 0],
                                      Ev("plan_created", s, Len(plan), << >>)), s))

\* What generateSearchKeywords returns: the keywords of the response, or null when
\* its chat call failed.
Keywords(ok) == IF ok THEN <<"k", "1", ",", " ", "k", "2">> ELSE Null

\* Search terms that are empty when there are no keywords.
SearchTermsNoFallback(section, keywords) == IF keywords = Null THEN << >> ELSE keywords

\* keywords || `${section.title} ${section.description}`
SearchTerms(section, keywords) ==
  IF keywords = Null \/ keywords = << >>
  THEN section.title \o <<" ">> \o section.description
  ELSE keywords

\* The chat call of generateSearchKeywords settles; researchSection goes on to the
\* search call.
KeywordsSettle(s, ok) ==
  /\ run[s].pc = "keywords"
  /\ UNCHANGED calls
  /\ Set([sendUpdate(St, Ev("tool_start", s, run[s].i,
                            SearchTerms(run[s].plan[run[s].i + 1], Keywords(ok))))
            EXCEPT !.run[s].pc = "search", !.run[s].keywords = Keywords(ok)])

\* this.activeSession!.sources.push(source) and source_found, for each source.
RECURSIVE ReportSources(_, _, _, _)
ReportSources(st, s, sources, n) ==
  IF n > Len(sources) THEN [st EXCEPT !.run[s].pc = "synthSection", !.run[s].sources = sources]
  ELSE IF st.as.id = 0 THEN CatchError(st, s, E_TypeError)
  ELSE ReportSources(sendUpdate([st EXCEPT !.as.sources = Append(@, sources[n])],
                                Ev("source_found", s, n, sources[n].doi)),
                     s, sources, n + 1)

\* The search settles (it never throws); researchSection goes on to the chat
\* call of synthesizeSection.
SearchSettles(s, sources) ==
  /\ run[s].pc = "search"
  /\ UNCHANGED calls
  /\ Set(ReportSources(St, s, sources, 1))

\* What researchSection returns.
SectionResult(r, content) ==
  [title |-> r.plan[r.i + 1].title, content |-> content, sources |-> r.sources]

\* The chat call of synthesizeSection settles; the loop goes on.
SectionSettles(s, ok, content) ==
  /\ run[s].pc = "synthSection"
  /\ UNCHANGED calls
  /\ IF ~ok THEN Set(CatchError(St, s, E_Chat))
     ELSE Set(ResearchLoop([St EXCEPT !.run[s].sectionResults =
                                        Append(@, SectionResult(run[s], content)),
                                      !.run[s].i = @ + 1], s))

\* The summary chat call of synthesizeReport settles.
SummarySettles(s, ok, content) ==
  /\ run[s].pc = "summary"
  /\ UNCHANGED calls
  /\ IF ~ok THEN Set(CatchError(St, s, E_Chat))
     ELSE Set(AppendChunk(St, s, summaryTitle(run[s].language) \o <<"\n", "\n">>
                                   \o CleanContent(content) \o <<"\n", "\n">>))

\* A paused loop that does not look at the cancellation after its timer.
PollWakesNoCancel(s) ==
  /\ run[s].pc = "paused"
  /\ UNCHANGED calls
  /\ ~isPaused
  /\ Set(AfterPoll(St, s, run[s].at))

\* The timer of checkPauseCancel fires.  While the session is still paused and
\* not cancelled the loop sets the next timer, which changes nothing.
PollWakes(s) ==
  /\ run[s].pc = "paused"
  /\ UNCHANGED calls
  /\ IsAborted(St) \/ ~isPaused
  /\ IF IsAborted(St) THEN Set(CatchCancelled(St, s))
     ELSE Set(AfterPoll(St, s, run[s].at))

\* A title generation whose failure ends the run as any other failure does.
TitleSettlesFatal(s, ok) ==
  /\ run[s].pc = "title"
  /\ UNCHANGED calls
  /\ IF ok
     THEN Set(Finally(sendUpdate([St EXCEPT !.ct[s] = TRUE],
                                 Ev("status", s, 0, <<"title_generated">>)), s))
     ELSE Set(CatchError(St, s, E_Chat))

\* The chat call of generateTitle settles; a failure is caught and logged.
TitleSettles(s, ok) ==
  /\ run[s].pc = "title"
  /\ UNCHANGED calls
  /\ IF ok
     THEN Set(Finally(sendUpdate([St EXCEPT !.ct[s] = TRUE],
                                 Ev("status", s, 0, <<"title_generated">>)), s))
     ELSE Set(Finally(St, s))

\* A pause that does not compare its argument with the active session.
pauseAnySession(sessionId) ==
  /\ calls < MaxCalls
  /\ calls' = calls + 1
  /\ Set(sendUpdate([St EXCEPT !.ip = TRUE, !.db[sessionId].status = "paused"],
                    Ev("paused", sessionId, 0, <<"Research paused">>)))

pause(sessionId) ==
  /\ calls < MaxCalls
  /\ calls' = calls + 1
  /\ IF activeSession.id = sessionId
     THEN Set(sendUpdate([St EXCEPT !.ip = TRUE, !.db[sessionId].status = "paused"],
                         Ev("paused", sessionId, 0, <<"Research paused">>)))
     ELSE Set(St)

resume(sessionId) ==
  /\ calls < MaxCalls
  /\ calls' = calls + 1
  /\ IF activeSession.id = sessionId
     THEN Set(sendUpdate([St EXCEPT !.ip = FALSE, !.db[sessionId].status = "running"],
                         Ev("status", sessionId, 0, <<"Research resumed">>)))
     ELSE Set(St)

\* this.abortController?.abort()
Abort(st) == IF st.ac = 0 THEN st ELSE [st EXCEPT !.ab[st.ac] = TRUE]

cancel(sessionId) ==
  /\ calls < MaxCalls
  /\ calls' = calls + 1
  /\ IF activeSession.id = sessionId THEN Set(Abort(St)) ELSE Set(St)

\* An update that puts the new query into the active session.
updateQueryInPlace(sessionId, newQuery) ==
  /\ calls < MaxCalls
  /\ calls' = calls + 1
  /\ IF activeSession.id = sessionId
     THEN Set(sendUpdate(Abort([St EXCEPT !.as.query = newQuery]),
                         Ev("status", sessionId, 0, <<"Query updated">>)))
     ELSE Set(St)

updateQuery(sessionId, newQuery) ==
  /\ calls < MaxCalls
  /\ calls' = calls + 1
  /\ IF activeSession.id = sessionId
     THEN Set(sendUpdate(Abort(St), Ev("status", sessionId, 0, <<"Query updated">>)))
     ELSE Set(St)

Next ==
  \/ \E language \in Languages : StartResearch(1, language)
  \/ \E s \in Sessions, outcome \in {"throws", "noJson", "noSections"} :
       PlanSettles(s, outcome, NoPlan)
  \/ \E s \in Sessions, plan \in Plans : PlanSettles(s, "plan", plan)
  \/ \E s \in Sessions, ok \in BOOLEAN : KeywordsSettle(s, ok)
  \/ \E s \in Sessions, sources \in SearchReturns : SearchSettles(s, sources)
  \/ \E s \in Sessions, content \in SectionResponses : SectionSettles(s, TRUE, content)
  \/ \E s \in Sessions : SectionSettles(s, FALSE, << >>)
  \/ \E s \in Sessions, content \in SummaryResponses : SummarySettles(s, TRUE, content)
  \/ \E s \in Sessions : SummarySettles(s, FALSE, << >>)
  \/ \E s \in Sessions : PollWakes(s)
  \/ \E s \in Sessions, ok \in BOOLEAN : TitleSettles(s, ok)
  \/ \E id \in Sessions : pause(id)
  \/ \E id \in Sessions : resume(id)
  \/ \E id \in Sessions : cancel(id)
  \/ \E id \in Sessions : updateQuery(id, S_newQuery)

Spec == Init /\ [][Next]_vars

\* An awaited call of runResearch, researchSection or generateTitle settles, with
\* a result or an error.
CallSettles(s) ==
  \/ PlanSettles(s, "throws", NoPlan)
  \/ PlanSettles(s, "plan", <<SecA>>)
  \/ \E ok \in BOOLEAN : KeywordsSettle(s, ok)
  \/ \E sources \in SearchReturns : SearchSettles(s, sources)
  \/ \E content \in SectionResponses : SectionSettles(s, TRUE, content)
  \/ SectionSettles(s, FALSE, << >>)
  \/ \E ok \in BOOLEAN : TitleSettles(s, ok)

\* The summary call of synthesizeReport settles.
SummaryCallSettles(s) ==
  \/ \E content \in SummaryResponses : SummarySettles(s, TRUE, content)
  \/ SummarySettles(s, FALSE, << >>)

\* The timer of a pause loop entered from runResearch fires.
LoopPollWakes(s) == run[s].at # "report" /\ PollWakes(s)

\* The timer of the pause loop inside synthesizeReport is due: PollWakes is enabled.
ReportPollDue(s) ==
  run[s].pc = "paused" /\ run[s].at = "report" /\ (aborted[s] \/ ~isPaused)

\* One run and the calls its user makes for it.
NextLive ==
  \/ StartResearch(1, "en")
  \/ CallSettles(1)
  \/ SummaryCallSettles(1)
  \/ PollWakes(1)
  \/ pause(1)
  \/ resume(1)
  \/ cancel(1)

\* Every external call eventually settles and the 500 ms timer of the pause loop
\* fires.  The summary call and the timer inside synthesizeReport are each the
\* only step that leaves their position, so their weak fairness is that the run
\* does not stay there forever.
SpecLive ==
  /\ Init /\ [][NextLive]_vars
  /\ WF_vars(CallSettles(1))
  /\ WF_vars(LoopPollWakes(1))
  /\ []<>(run[1].pc # "summary")
  /\ []<>(~ReportPollDue(1))

(***************************************************************************)
(* Two sessions, the second started while the run of the first is going on *)
(***************************************************************************)

\* startResearch as the code has it: it asks nothing about a session in progress.
StartUnguarded(s) ==
  /\ run[s].pc = "idle"
  /\ Set(StartBody(s, "en"))
  /\ UNCHANGED calls

\* Session 1 is started first, session 2 at any moment after it.
NextBoth ==
  \/ StartUnguarded(1)
  \/ run[1].pc # "idle" /\ StartUnguarded(2)
  \/ \E s \in Sessions : PlanSettles(s, "plan", <<SecA>>)
  \/ \E s \in Sessions : KeywordsSettle(s, TRUE)
  \/ \E s \in Sessions : SearchSettles(s, <<SrcReal>>)
  \/ \E s \in Sessions, content \in SectionResponses : SectionSettles(s, TRUE, content)
  \/ \E s \in Sessions, content \in SummaryResponses : SummarySettles(s, TRUE, content)
  \/ \E s \in Sessions : TitleSettles(s, TRUE)
  \/ cancel(2)

SpecBoth == Init /\ [][NextBoth]_vars

(***************************************************************************)
(* The client: the research part of useChatStore and the handler of         *)
(* useResearchEvents, fed with the updates in the order they were sent      *)
(***************************************************************************)

\* activeResearch: null
NullResearch == [isActive |-> FALSE, status |-> "null", reportContent |-> << >>]

\* useChatStore.startResearch(requestId), called by the page that started the run.
ClientStart ==
  [activeResearch |-> [isActive |-> TRUE, status |-> "thinking", reportContent |-> << >>],
   messages |-> << >>]

updateResearchStatus(c, status) ==
  IF c.activeResearch = NullResearch THEN c ELSE [c EXCEPT !.activeResearch.status = status]

addReportChunk(c, chunk) ==
  IF c.activeResearch = NullResearch THEN c
  ELSE [c EXCEPT !.activeResearch.reportContent = @ \o chunk,
                 !.activeResearch.status = "writing"]

\* The report message holds state.activeResearch.reportContent.
completeResearch(c) ==
  IF c.activeResearch = NullResearch THEN c
  ELSE [c EXCEPT !.messages = Append(@, c.activeResearch.reportContent),
                 !.activeResearch.isActive = FALSE,
                 !.activeResearch.status = "completed"]

resetResearch(c) == [c EXCEPT !.activeResearch = NullResearch]

\* The switch of events.onResearchUpdate.  A tool_start update carries a query
\* only for the academic search; an update of any other type, report_replace
\* among them, is logged and changes nothing.
onResearchUpdate(c, update) ==
  CASE update.type = "status" -> updateResearchStatus(c, "thinking")
    [] update.type = "plan_created" -> updateResearchStatus(c, "planning")
    [] update.type = "research_started" -> updateResearchStatus(c, "researching")
    [] update.type = "tool_start" ->
         IF update.text \in {<<"keyword_generation">>, << >>} THEN c
         ELSE updateResearchStatus(c, "researching")
    [] update.type = "source_found" -> c
    [] update.type = "report_chunk" ->
         IF update.text = << >> THEN c
         ELSE updateResearchStatus(addReportChunk(c, update.text), "writing")
    [] update.type = "completed" -> completeResearch(c)
    [] update.type = "paused" -> updateResearchStatus(c, "idle")
    [] update.type = "cancelled" -> resetResearch(c)
    [] update.type = "error" -> updateResearchStatus(c, "error")
    [] OTHER -> c

\* The store after the first n updates were handled.
RECURSIVE ClientAfter(_)
ClientAfter(n) ==
  IF n = 0 THEN ClientStart
  ELSE CHOOSE next \in {onResearchUpdate(c, events[n]) : c \in {ClientAfter(n - 1)}} : TRUE

Client == ClientAfter(Len(events))

\* The status ChatPage hands to ResearchControls.
ControlStatus == IF Client.activeResearch.status = "idle" THEN "pending" ELSE "running"

\* ChatPage shows the controls, and the pause/resume button is not disabled.
ControlEnabled ==
  /\ Client.activeResearch # NullResearch
  /\ Client.activeResearch.isActive
  /\ Client.activeResearch.status # "completed"
  /\ ControlStatus # "pending"

\* handlePauseResume of ResearchControls.
ClickPauseResume ==
  /\ ControlEnabled
  /\ IF ControlStatus = "paused" THEN resume(1) ELSE pause(1)

\* handleCancel of ResearchControls.
ClickCancel ==
  /\ ControlEnabled
  /\ cancel(1)

\* One run, its user acting through the controls of the page.
NextClient ==
  \/ \E language \in Languages : StartResearch(1, language)
  \/ \E plan \in Plans : PlanSettles(1, "plan", plan)
  \/ \E ok \in BOOLEAN : KeywordsSettle(1, ok)
  \/ \E sources \in SearchReturns : SearchSettles(1, sources)
  \/ \E content \in SectionResponses : SectionSettles(1, TRUE, content)
  \/ \E content \in SummaryResponses : SummarySettles(1, TRUE, content)
  \/ PollWakes(1)
  \/ \E ok \in BOOLEAN : TitleSettles(1, ok)
  \/ ClickPauseResume
  \/ ClickCancel

SpecClient == Init /\ [][NextClient]_vars

(***************************************************************************)
(* The orchestrator left alone by its user, on plans with reserved titles  *)
(* and on sources whose record names no author                             *)
(***************************************************************************)

SecRefs == Section(<<"R", "e", "f", "e", "r", "e", "n", "c", "e", "s">>, <<"r">>)

SecSum == Section(<<"S", "U", "M", "M", "A", "R", "Y">>, <<"s">>)

\* Outlines in which the planning call did not honor the exclusion instruction.
ReportPlans == {<<SecA, SecRefs>>, <<SecSum, SecA>>}

\* A paper whose only author object holds no name: (article.authors || []).map((a) => a.name)
SrcUnnamed == Source(S_citedReal, <<Undefined>>, 2020)

ReportSearchReturns == {<<SrcCited>>, <<SrcUnnamed>>}

\* A section synthesis response that cites the retrieved paper.
ReportSectionResponses == { <<"z", " ", "(">> \o S_DOI \o <<" ">> \o S_citedReal \o <<")", ".">> }

NextReport ==
  \/ \E language \in Languages : StartResearch(1, language)
  \/ \E plan \in ReportPlans : PlanSettles(1, "plan", plan)
  \/ \E ok \in BOOLEAN : KeywordsSettle(1, ok)
  \/ \E sources \in ReportSearchReturns : SearchSettles(1, sources)
  \/ \E content \in ReportSectionResponses : SectionSettles(1, TRUE, content)
  \/ \E content \in SummaryResponses : SummarySettles(1, TRUE, content)
  \/ \E ok \in BOOLEAN : TitleSettles(1, ok)

SpecReport == Init /\ [][NextReport]_vars

\* A title that holds a reserved word inside a longer title.
SecData == Section(<<"D", "a", "t", "a", " ", "s", "u", "m", "m", "a", "r", "y">>, <<"d">>)

\* Outlines with a reserved title and with a title that only contains one.
TitlePlans == {<<SecA, SecData>>, <<SecData, SecB>>, <<SecSum, SecA>>}

NextTitles ==
  \/ \E language \in Languages : StartResearch(1, language)
  \/ \E plan \in TitlePlans : PlanSettles(1, "plan", plan)
  \/ \E ok \in BOOLEAN : KeywordsSettle(1, ok)
  \/ \E sources \in ReportSearchReturns : SearchSettles(1, sources)
  \/ \E content \in ReportSectionResponses : SectionSettles(1, TRUE, content)
  \/ \E content \in SummaryResponses : SummarySettles(1, TRUE, content)
  \/ \E ok \in BOOLEAN : TitleSettles(1, ok)

SpecTitles == Init /\ [][NextTitles]_vars

\* The state after construction when Electron runs the bundle.
InitBuilt ==
  /\ activeSession = NoSession
  /\ abortController = 0
  /\ aborted = [s \in Sessions |-> FALSE]
  /\ isPaused = FALSE
  /\ db = [s \in Sessions |-> NoRow]
  /\ messages = << >>
  /\ chatTitles = [s \in Sessions |-> FALSE]
  /\ events = << >>
  /\ run = [s \in Sessions |-> IdleRun]
  /\ calls = 0
  /\ cite = NoCite
  /\ search = NoSearch
  /\ call = NoCall
  /\ built = TRUE

\* The bundled orchestrator, left alone by its user.
SpecBuilt == InitBuilt /\ [][NextReport]_vars

\* filterAndFormatCitationsWithSourceDois is called on the text.
ProcessCitations ==
  /\ ~cite.done
  /\ cite' = [cite EXCEPT !.done = TRUE,
                          !.out = filterAndFormatCitationsWithSourceDois(
                                    ContentOf(cite.segs), cite.fallbackByDoi)]
  /\ UNCHANGED <<activeSession, abortController, aborted, isPaused, db, messages,
                 chatTitles, events, run, calls, search, call, built>>

InitCite ==
  /\ activeSession = NoSession
  /\ abortController = 0
  /\ aborted = [s \in Sessions |-> FALSE]
  /\ isPaused = FALSE
  /\ db = [s \in Sessions |-> NoRow]
  /\ messages = << >>
  /\ chatTitles = [s \in Sessions |-> FALSE]
  /\ events = << >>
  /\ run = [s \in Sessions |-> IdleRun]
  /\ calls = 0
  /\ search = NoSearch
  /\ call = NoCall
  /\ built = FALSE
  /\ \E segs \in SegmentLists, fallbackByDoi \in Fallbacks :
       cite = [NoCite EXCEPT !.segs = segs, !.fallbackByDoi = fallbackByDoi]

NextCite == ProcessCitations

\* The citation rewriter alone, on every text of at most MaxMarkers segments.
SpecCite == InitCite /\ [][NextCite]_vars

(***************************************************************************)
(* One call of AcademicSearchTool.search                                   *)
(***************************************************************************)

\* What searchPubMed asked of PubMed: the query, and how many records
\* executePubMedSearch returned for it (-1 when it threw).
Asked(query, found) == [query |-> query, found |-> found]

\* The statements of search after the two backends.
Return(sr) == [sr EXCEPT !.pc = "done", !.out = Merge(sr.results)]

\* search after its PubMed block: the web search is made when PubMed gave fewer
\* than ten records and the Ollama service is initialized.
AfterPubMed(sr) ==
  IF Len(sr.results) < 10 /\ sr.initialized THEN [sr EXCEPT !.pc = "scholar"] ELSE Return(sr)

\* A catch block that throws what it caught.
RethrowPubMed(sr) == [sr EXCEPT !.pc = "done", !.threw = TRUE]

\* The catch block of search around searchPubMed.
CatchPubMed(sr) == AfterPubMed(sr)

\* A loop that asks the next tier whatever the tier returned.
TierResultKeepsAsking(sr, results) ==
  IF Len(sr.asked) < Len(sr.queries) THEN sr
  ELSE AfterPubMed([sr EXCEPT !.results = results, !.pubmed = results])

\* The body of the loop of searchPubMed after executePubMedSearch returned
\* results, and results.push(...pubmedResults) in search.
TierResult(sr, results) ==
  IF Len(results) > 0 THEN AfterPubMed([sr EXCEPT !.results = results, !.pubmed = results])
  ELSE IF Len(sr.asked) < Len(sr.queries) THEN sr
  ELSE AfterPubMed(sr)

\* search(query) is called; searchPubMed builds its queries and asks the first.
SearchCalled(query, initialized) ==
  /\ search.pc = "idle"
  /\ search' = [NoSearch EXCEPT !.pc = "pubmed", !.query = query,
                                !.initialized = initialized,
                                !.queries = QueriesFor(query, KeywordsOf(query))]
  /\ UNCHANGED <<activeSession, abortController, aborted, isPaused, db, messages,
                 chatTitles, events, run, calls, cite, call, built>>

\* executePubMedSearch throws for the query asked: fetch rejects or a response
\* is not ok.  searchPubMed lets it through to the catch block of search.
PubMedThrows ==
  /\ search.pc = "pubmed"
  /\ search' = CatchPubMed([search EXCEPT
                              !.asked = Append(@, Asked(search.queries[Len(search.asked) + 1], -1)),
                              !.failed = @ \cup {"pubmed"}])
  /\ UNCHANGED <<activeSession, abortController, aborted, isPaused, db, messages,
                 chatTitles, events, run, calls, cite, call, built>>

\* executePubMedSearch returns for the query asked.
PubMedSettles(articles) ==
  /\ search.pc = "pubmed"
  /\ search' = TierResult([search EXCEPT
                             !.asked = Append(@, Asked(search.queries[Len(search.asked) + 1],
                                                       Len(PubMedRecords(articles))))],
                          PubMedRecords(articles))
  /\ UNCHANGED <<activeSession, abortController, aborted, isPaused, db, messages,
                 chatTitles, events, run, calls, cite, call, built>>

\* The web search of searchGoogleScholar throws: its catch block returns [].
ScholarThrows ==
  /\ search.pc = "scholar"
  /\ search' = Return([search EXCEPT !.failed = @ \cup {"scholar"}])
  /\ UNCHANGED <<activeSession, abortController, aborted, isPaused, db, messages,
                 chatTitles, events, run, calls, cite, call, built>>

\* searchGoogleScholar returns, and results.push(...scholarResults) in search.
ScholarSettles(items) ==
  /\ search.pc = "scholar"
  /\ search' = Return([search EXCEPT !.results = @ \o ScholarRecords(items),
                                     !.scholar = ScholarRecords(items)])
  /\ UNCHANGED <<activeSession, abortController, aborted, isPaused, db, messages,
                 chatTitles, events, run, calls, cite, call, built>>

NextSearch ==
  \/ \E query \in Queries, initialized \in BOOLEAN : SearchCalled(query, initialized)
  \/ PubMedThrows
  \/ \E articles \in PubMedReturns : PubMedSettles(articles)
  \/ ScholarThrows
  \/ \E items \in ScholarReturns : ScholarSettles(items)

\* The search tool alone, on every query and every response of the inputs.
SpecSearch == Init /\ [][NextSearch]_vars

(***************************************************************************)
(* normalizeDoi, applied once and then to its own result                   *)
(***************************************************************************)

\* What may stand before a DOI: a doi: prefix (once or twice), a doi.org address
\* (once, or before a doi: prefix), or nothing.
DoiPrefixes ==
  { << >>, <<"d", "o", "i", ":">>, <<"D", "O", "I", ":", " ">>, <<"d", "o", "i", ":", "d", "o", "i", ":">>,
    <<"h", "t", "t", "p", "s", ":", "/", "/", "d", "o", "i", ".", "o", "r", "g", "/">>, <<"h", "t", "t", "p", ":", "/", "/", "d", "x", ".", "d", "o", "i", ".", "o", "r", "g", "/">>,
    <<"h", "t", "t", "p", "s", ":", "/", "/", "d", "o", "i", ".", "o", "r", "g", "/", "d", "o", "i", ":">> }

\* DOIs: plain, with an escaped slash, with the escape of a percent sign that
\* starts an escape in turn, and with a percent sign that starts no escape.
DoiCores ==
  { <<"1", "0", ".", "1", "2", "3", "4", "/", "A", "b", "C">>, <<"1", "0", ".", "1", "2", "3", "4", "/", "a", "%", "2", "F", "b">>, <<"1", "0", ".", "1", "2", "3", "4", "/", "x", "%", "2", "5", "4", "1">>, <<"1", "0", ".", "1", "2", "3", "4", "/", "x", "%">> }

\* What may follow a DOI: nothing, sentence punctuation (after a blank as well),
\* the rest of a markdown link to doi.org, with and without its closing parenthesis.
DoiSuffixes ==
  { << >>, <<".">>, <<" ", ".">>, <<".", " ", ".">>, <<")", ";">>,
    <<"]", "(", "h", "t", "t", "p", "s", ":", "/", "/", "d", "o", "i", ".", "o", "r", "g", "/", "1", "0", ".", "1", "2", "3", "4", "/", "A", "b", "C">>,
    <<"]", "(", "h", "t", "t", "p", "s", ":", "/", "/", "d", "o", "i", ".", "o", "r", "g", "/", "1", "0", ".", "1", "2", "3", "4", "/", "A", "b", "C", ")">> }

\* The complete markdown-link citation of a DOI that ends a sentence.
S_linkCitation ==
  <<"[", "D", "O", "I", ":", " ", "1", "0", ".", "1", "2", "3", "4", "/", "A", "b", "C", ".", "]", "(", "h", "t", "t", "p", "s", ":", "/", "/", "d", "o", "i", ".", "o", "r", "g", "/", "1", "0", ".", "1", "2", "3", "4", "/", "A", "b", "C", ".", ")">>

DoiInputs ==
  {S_linkCitation}
  \cup {pre \o core \o suf : pre \in DoiPrefixes, core \in DoiCores, suf \in DoiSuffixes}

\* The orchestrator as constructed, and no call of search.
Untouched ==
  /\ activeSession = NoSession
  /\ abortController = 0
  /\ aborted = [s \in Sessions |-> FALSE]
  /\ isPaused = FALSE
  /\ db = [s \in Sessions |-> NoRow]
  /\ messages = << >>
  /\ chatTitles = [s \in Sessions |-> FALSE]
  /\ events = << >>
  /\ run = [s \in Sessions |-> IdleRun]
  /\ calls = 0
  /\ cite = NoCite
  /\ search = NoSearch
  /\ built = FALSE

InitNorm ==
  /\ Untouched
  /\ \E doi \in DoiInputs :
       call = [fn |-> "normalizeDoi", input |-> doi, n |-> 0, out |-> << >>, again |-> << >>]

\* normalizeDoi is called on the input.
NormalizeDoi ==
  /\ call.fn = "normalizeDoi"
  /\ call.n = 0
  /\ call' = [call EXCEPT !.n = 1, !.out = normalizeDoi(call.input)]
  /\ UNCHANGED <<activeSession, abortController, aborted, isPaused, db, messages,
                 chatTitles, events, run, calls, cite, search, built>>

\* normalizeDoi is called on what it returned.
NormalizeAgain ==
  /\ call.fn = "normalizeDoi"
  /\ call.n = 1
  /\ call' = [call EXCEPT !.n = 2, !.again = normalizeDoi(call.out)]
  /\ UNCHANGED <<activeSession, abortController, aborted, isPaused, db, messages,
                 chatTitles, events, run, calls, cite, search, built>>

NextNorm == NormalizeDoi \/ NormalizeAgain

SpecNorm == InitNorm /\ [][NextNorm]_vars

(***************************************************************************)
(* One call of generateReferencesSection                                   *)
(***************************************************************************)

\* Most elements of citedDois.
MaxCited == 3

CitedLists == UNION {[1..n -> {S_citedReal, S_citedFake, DoiNo(1)}] : n \in 0..MaxCited}

\* The secondary lookup: empty, as the orchestrator passes it, or with the
\* metadata of one DOI.
ValidatedMaps ==
  { EmptyMap,
    [d \in {DoiNo(1)} |->
       [authors |-> << <<"Z", "o", "e">> >>, year |-> 2021, title |-> <<"V">>,
        journal |-> <<"W">>, doi |-> DoiNo(1)]] }

InitRefs ==
  /\ Untouched
  /\ \E citedDois \in CitedLists, validatedDois \in ValidatedMaps,
        fallbackByDoi \in Fallbacks, language \in Languages :
       call = [fn |-> "generateReferencesSection", citedDois |-> citedDois,
               validatedDois |-> validatedDois, fallbackByDoi |-> fallbackByDoi,
               language |-> language, n |-> 0, out |-> << >>]

\* generateReferencesSection is called on the input.
GenerateReferences ==
  /\ call.fn = "generateReferencesSection"
  /\ call.n = 0
  /\ call' = [call EXCEPT !.n = 1,
                          !.out = generateReferencesSection(call.citedDois, call.validatedDois,
                                                            call.fallbackByDoi, call.language)]
  /\ UNCHANGED <<activeSession, abortController, aborted, isPaused, db, messages,
                 chatTitles, events, run, calls, cite, search, built>>

NextRefs == GenerateReferences

SpecRefs == InitRefs /\ [][NextRefs]_vars

(***************************************************************************)
(* The citation rewriter on texts that cite two retrieved papers           *)
(***************************************************************************)

\* A second paper the search retrieved.
SrcOther == Source(DoiNo(1), << <<"D", "a", "n", " ", "O", "h">> >>, 2019)

\* Plain words and markers of the four forms, each citing one of the two papers.
OrderSegments ==
  {Segment(0, << >>)} \cup {Segment(f, d) : f \in 1..4, d \in {S_citedReal, DoiNo(1)}}

InitOrder ==
  /\ activeSession = NoSession
  /\ abortController = 0
  /\ aborted = [s \in Sessions |-> FALSE]
  /\ isPaused = FALSE
  /\ db = [s \in Sessions |-> NoRow]
  /\ messages = << >>
  /\ chatTitles = [s \in Sessions |-> FALSE]
  /\ events = << >>
  /\ run = [s \in Sessions |-> IdleRun]
  /\ calls = 0
  /\ search = NoSearch
  /\ call = NoCall
  /\ built = FALSE
  /\ \E segs \in UNION {[1..n -> OrderSegments] : n \in 1..MaxMarkers} :
       cite = [NoCite EXCEPT !.segs = segs,
                             !.fallbackByDoi = FallbackByDoi(<<SrcCited, SrcOther>>)]

\* The citation rewriter alone, on every text of at most MaxMarkers segments
\* that cite retrieved papers only.
SpecOrder == InitOrder /\ [][NextCite]_vars

(***************************************************************************)
(* The citation rewriter on texts that cite retrieved and other papers,    *)
(* one of the retrieved DOIs holding the escape of a percent sign          *)
(***************************************************************************)

\* A DOI as a search result may carry it: 10.1234/x%2541.
S_escapedDoi ==
  <<"1", "0", ".", "1", "2", "3", "4", "/", "x", "%", "2", "5", "4", "1">>

SrcEscaped == Source(S_escapedDoi, << <<"E", "v", "e", " ", "F", "o", "x">> >>, 2018)

TrustSegments ==
  {Segment(0, << >>)}
  \cup {Segment(f, d) : f \in 1..4, d \in {S_citedReal, S_citedFake, S_escapedDoi}}

InitTrust ==
  /\ activeSession = NoSession
  /\ abortController = 0
  /\ aborted = [s \in Sessions |-> FALSE]
  /\ isPaused = FALSE
  /\ db = [s \in Sessions |-> NoRow]
  /\ messages = << >>
  /\ chatTitles = [s \in Sessions |-> FALSE]
  /\ events = << >>
  /\ run = [s \in Sessions |-> IdleRun]
  /\ calls = 0
  /\ search = NoSearch
  /\ call = NoCall
  /\ built = FALSE
  /\ \E segs \in UNION {[1..n -> TrustSegments] : n \in 1..MaxMarkers} :
       cite = [NoCite EXCEPT !.segs = segs,
                             !.fallbackByDoi = FallbackByDoi(<<SrcCited, SrcEscaped>>)]

SpecTrust == InitTrust /\ [][NextCite]_vars

(***************************************************************************)
(* Properties of the citation rewriter                                     *)
(***************************************************************************)

\* The markers of the text whose normalized DOI is, or is not, a key of the map.
MarkersOf(verified) ==
  {n \in 1..Len(cite.segs) :
     /\ cite.segs[n].form # 0
     /\ (normalizeDoi(cite.segs[n].doi) \in DOMAIN cite.fallbackByDoi) = verified}

\* The markdown link to https://doi.org/<doi> of a verified marker.
LinkOf(seg) ==
  LET doi == normalizeDoi(seg.doi)
  IN  <<"[">> \o formatCitationLinkTextFromFallback(cite.fallbackByDoi[doi]) \o <<"]", "(">>
      \o S_doiOrgUrl \o doi \o <<")">>

\* A text in n pairs of parentheses.
RECURSIVE Wrap(_, _)
Wrap(n, text) == IF n = 0 THEN text ELSE <<"(">> \o Wrap(n - 1, text) \o <<")">>

\* C1: every marker, in any of the four forms, whose normalized DOI is not a key
\* of fallbackByDoi is deleted entirely -- neither its DOI nor, in a text whose
\* markers are all of that kind, any bracket or URL is left in processedContent --
\* and its normalized DOI is listed in removedDois.
C1_UnverifiedMarkerDeleted ==
  cite.done =>
    /\ \A n \in MarkersOf(FALSE) :
         /\ Count(cite.out.removedDois, normalizeDoi(cite.segs[n].doi)) = 1
         /\ ~Includes(cite.out.processedContent, cite.segs[n].doi)
    /\ MarkersOf(TRUE) = {} =>
         cite.out.processedContent =
           Join([n \in 1..Len(cite.segs) |->
                   IF cite.segs[n].form = 0 THEN <<"x">> ELSE << >>], <<" ">>)

\* C3: every marker whose normalized DOI is a key of fallbackByDoi is replaced by
\* a markdown link to https://doi.org/<doi> (in a text whose markers are all of
\* that kind, the link, alone or in parentheses, stands where the marker stood),
\* and the DOI is in citedDois exactly once however often it is cited.
C3_VerifiedMarkerLinked ==
  cite.done =>
    /\ \A n \in MarkersOf(TRUE) :
         /\ Count(cite.out.citedDois, normalizeDoi(cite.segs[n].doi)) = 1
         /\ Includes(cite.out.processedContent, LinkOf(cite.segs[n]))
    /\ MarkersOf(FALSE) = {} =>
         \E w \in [1..Len(cite.segs) -> 0..2] :
           cite.out.processedContent =
             Join([n \in 1..Len(cite.segs) |->
                     IF cite.segs[n].form = 0 THEN <<"x">>
                     ELSE Wrap(w[n], LinkOf(cite.segs[n]))], <<" ">>)

(***************************************************************************)
(* Properties of the research orchestrator                                 *)
(***************************************************************************)

\* The positions in the event log of the events of a type.
Emitted(type) == {n \in 1..Len(events) : events[n].type = type}

\* The events a step appends to the log.
NewEvents == SubSeq(events', Len(events) + 1, Len(events'))

NewTypes == {NewEvents[n].type : n \in 1..Len(NewEvents)}

Resumed == Ev("status", 1, 0, <<"Research resumed">>)

Cancelled == Ev("cancelled", 1, 0, <<"Research cancelled by user">>)

S_markerFake == <<"(">> \o S_DOI \o <<" ">> \o S_fakeDoi \o <<")">>

S_markerReal == <<"(">> \o S_DOI \o <<" ">> \o SrcReal.doi \o <<")">>

\* C2: end to end, when a section synthesis response cites (DOI: 10.1/fake),
\* which was not retrieved, and (DOI: 10.1/real), which was, the final report
\* stored for the chat does not contain 10.1/fake and contains a link for 10.1/real.
C2_ScenarioB ==
  \A m \in 1..Len(messages) :
    (/\ \E n \in 1..Len(messages[m].sources) : messages[m].sources[n].doi = SrcReal.doi
     /\ \E n \in 1..Len(run[1].sectionResults) :
          /\ Includes(run[1].sectionResults[n].content, S_markerFake)
          /\ Includes(run[1].sectionResults[n].content, S_markerReal))
    => /\ ~Includes(messages[m].content, S_fakeDoi)
       /\ Includes(messages[m].content, <<"]", "(">> \o toDoiUrl(SrcReal.doi) \o <<")">>)

\* C4: once status completed or cancelled is persisted for the session, no later
\* step -- no pause, resume, cancel or updateQuery, whenever it arrives -- changes
\* the persisted status.
C4_TerminalStatusFinal ==
  [][db[1].status \in {"completed", "cancelled"} => db'[1].status = db[1].status]_vars

\* C5: a pause halts section progress until resume: after the paused event of an
\* accepted pause no research_started event is emitted before the session is resumed.
C5_PauseHaltsSections ==
  \A i \in Emitted("paused"), j \in Emitted("research_started") :
    i < j => \E k \in (i + 1)..(j - 1) : events[k] = Resumed

\* The run waits in the paused loop before its next section, one section done.
C5_Witness ==
  /\ run[1].pc = "paused"
  /\ run[1].at = "section"
  /\ isPaused
  /\ Emitted("research_started") # {}

\* The run waits in the timer of the paused loop and cancel has been called.
CancelledWhilePaused == run[1].pc = "paused" /\ aborted[1]

\* C6: a cancel issued while the run waits in the paused loop ends the session as
\* cancelled at the next poll, resumed or not; from that cancel on no
\* research_started, report_chunk or completed event is emitted.
C6_CancelWhilePausedWins ==
  [][/\ (CancelledWhilePaused /\ run'[1] # run[1]) =>
          /\ run'[1].pc = "done"
          /\ db'[1].status = "cancelled"
          /\ NewEvents = <<Cancelled>>
     /\ (CancelledWhilePaused \/ db[1].status = "cancelled") =>
          NewTypes \cap {"research_started", "report_chunk", "completed"} = {}]_vars

\* The session was resumed while the run waited in the paused loop, and the poll
\* after the resume ended it as cancelled.
C6_Witness ==
  /\ db[1].status = "cancelled"
  /\ run[1].pc = "done"
  /\ run[1].at # "none"
  /\ Len(events) >= 2
  /\ events[Len(events)] = Cancelled
  /\ events[Len(events) - 1] = Resumed

\* The messages of the exceptions a failing step of the run throws.
FailureMessages == {E_Chat, E_NoPlan, E_NoSections, E_TypeError}

\* A step of the run that reaches a poll point (its call did not fail) with the
\* cancellation signalled.
ObservesCancel ==
  /\ aborted[1]
  /\ run[1].pc \in {"plan", "synthSection", "paused", "summary"}
  /\ run[1].pc = "summary" => FilteredSections(run[1].sectionResults) # << >>
  /\ run'[1] # run[1]
  /\ \A n \in 1..Len(NewEvents) :
       ~(NewEvents[n].type = "error" /\ NewEvents[n].text \in FailureMessages)

EndedCancelled ==
  /\ run[1].pc = "done"
  /\ db[1].status = "cancelled"
  /\ Cardinality(Emitted("cancelled")) = 1
  /\ Emitted("error") = {}
  /\ Emitted("completed") = {}

\* C7: when the run observes a cancellation at a poll point the session ends with
\* persisted status cancelled and exactly one cancelled event, and no error and no
\* completed event is emitted for it, then or later.
C7_CancellationEndsCancelled ==
  [][(ObservesCancel \/ db[1].status = "cancelled") => EndedCancelled']_vars

\* A cancellation observed at a poll point the run reached without waiting.
C7_Witness == EndedCancelled /\ run[1].at = "none" /\ run[1].sectionResults # << >>

\* A step of the run in which a call fails: the run ends, and not as cancelled.
FailsNow ==
  /\ run[1].pc \in {"plan", "synthSection", "summary"}
  /\ run'[1].pc = "done"
  /\ db'[1].status # "cancelled"

EndedFailed ==
  /\ run[1].pc = "done"
  /\ db[1].status = "completed"
  /\ Cardinality(Emitted("error")) = 1
  /\ Emitted("completed") = {}
  /\ messages = << >>

\* C8: a failure of the run other than cancellation (no plan in the planning
\* response, a failed section synthesis or summary call) ends the session with
\* persisted status completed and exactly one error event, which carries the
\* exception's message; no completed event is emitted and no report is stored.
C8_FailureEndsCompleted ==
  [][/\ (FailsNow \/ Emitted("error") # {}) => EndedFailed'
     /\ FailsNow =>
          /\ events' # << >>
          /\ events'[Len(events')] \in
               {Ev("error", 1, 0, message) :
                  message \in (IF run[1].pc = "plan" THEN {E_Chat, E_NoPlan, E_NoSections}
                               ELSE {E_Chat})}]_vars

\* A call failed after a section had been researched.
C8_Witness == EndedFailed /\ run[1].sectionResults # << >>

\* C9: whatever its outcome, when the run has finished getActiveSession() returns
\* null and the reference to the abort controller is cleared.
C9_ReferencesCleared ==
  run[1].pc = "done" => (activeSession = NoSession /\ abortController = 0)

\* The run has finished after its completed event and the title generation.
C9_Witness == run[1].pc = "done" /\ Emitted("completed") # {} /\ chatTitles[1]

NoSourcesReport == noSourcesReport(run[1].language)

\* C10: when the searches of all sections return no source the synthesis issues
\* no LM request and runs no citation processing: the stored report is the
\* localized placeholder, one report_chunk (marked final) and no report_replace
\* is emitted, the stored source list is empty, and the session ends as a
\* success: persisted status completed, a completed event, no error event.
C10_NoSourcesPlaceholder ==
  (/\ run[1].pc = "done"
   /\ \E n \in Emitted("status") : events[n].text = <<"Synthesizing report...">>
   /\ AllSources(run[1].sectionResults) = << >>)
  => /\ Len(messages) = 1
     /\ messages[1].content = NoSourcesReport
     /\ messages[1].sources = << >>
     /\ \E n \in 1..Len(events) : Emitted("report_chunk") = {n}
     /\ \A n \in Emitted("report_chunk") : events[n].idx = 1 /\ events[n].text = NoSourcesReport
     /\ Emitted("report_replace") = {}
     /\ \A n \in Emitted("status") : events[n].text # <<"Writing executive summary...">>
     /\ db[1].status = "completed"
     /\ Emitted("completed") # {}
     /\ Emitted("error") = {}

\* The tool_start events of the search calls for section i (0-based).
SearchStarts(i) ==
  {n \in Emitted("tool_start") :
     events[n].idx = i /\ events[n].text # <<"keyword_generation">>}

\* C11: a failure of the keyword-generation call neither ends nor stalls the
\* session and sends no error event: the step in which that call settles always
\* goes on to the search call of the section, which is made once, with the
\* section's title + " " + description when keyword generation failed, and the
\* settling of the search leads to the section's synthesis call.
C11_KeywordFailureFallsBack ==
  [][/\ (run[1].pc = "keywords" /\ run'[1] # run[1]) =>
          /\ run'[1].pc = "search"
          /\ db'[1] = db[1]
          /\ NewEvents =
               <<Ev("tool_start", 1, run[1].i,
                    IF run'[1].keywords = Null
                    THEN run[1].plan[run[1].i + 1].title \o <<" ">>
                         \o run[1].plan[run[1].i + 1].description
                    ELSE run'[1].keywords)>>
          /\ Cardinality(SearchStarts(run[1].i)') = 1
     /\ (run[1].pc = "search" /\ run'[1] # run[1]) =>
          /\ run'[1].pc = "synthSection"
          /\ db'[1] = db[1]
          /\ "error" \notin NewTypes]_vars

\* Keyword generation failed for the second section, whose search has settled.
C11_Witness ==
  /\ run[1].pc = "synthSection"
  /\ run[1].keywords = Null
  /\ run[1].i = 1
  /\ Emitted("error") = {}

\* The citation block of synthesizeReport was entered.
CitationEntered ==
  \E n \in Emitted("status") : events[n].text = <<"Validating DOI citations">>

\* The call of filterAndFormatCitationsWithSourceDois in the try block threw: the
\* report text is the one the section loop left, on which the call throws.
PrimaryPassThrew ==
  /\ CitationEntered
  /\ CallbackThrows(filterAndFormatCitationsWithSourceDois(
                      run[1].reportContent, FallbackByDoi(AllSources(run[1].sectionResults))),
                    FallbackByDoi(AllSources(run[1].sectionResults)))

S_ReferencesHeading == <<"#", "#", " ", "R", "e", "f", "e", "r", "e", "n", "c", "e", "s">>

\* C12: a failure inside citation processing never prevents report delivery: when
\* the primary citation pass throws, a report_replace event whose report holds a
\* references section is still emitted and the session ends completed, with a
\* completed event and a stored report message and without an error event.
C12_CitationFailureStillDelivers ==
  (run[1].pc = "done" /\ PrimaryPassThrew) =>
    /\ \E n \in Emitted("report_replace") :
         \/ Includes(events[n].text, S_ReferencesHeading)
         \/ Includes(events[n].text, <<"#", "#", " ">> \o S_chamgomunheon)
    /\ db[1].status = "completed"
    /\ Emitted("completed") # {}
    /\ Len(messages) = 1
    /\ Emitted("error") = {}

\* The reserved titles, in lower case.
ReservedTitles ==
  {<<"s", "u", "m", "m", "a", "r", "y">>,
   <<"e", "x", "e", "c", "u", "t", "i", "v", "e", " ", "s", "u", "m", "m", "a", "r", "y">>,
   <<"r", "e", "f", "e", "r", "e", "n", "c", "e", "s">>,
   <<"b", "i", "b", "l", "i", "o", "g", "r", "a", "p", "h", "y">>,
   <<"yo", "yak">>, <<"cham", "go", "mun", "heon">>}

\* The planned sections whose title is reserved, compared case-insensitively.
ReservedSections ==
  {p \in 1..Len(run[1].plan) : LowerStr(run[1].plan[p].title) \in ReservedTitles}

\* The report_chunk events of the sections: all but the first, the summary's.
SectionChunks ==
  IF Emitted("report_chunk") = {} THEN {}
  ELSE Emitted("report_chunk") \ {SetMin(Emitted("report_chunk"))}

\* C13: a planned section with a reserved title never appears as a section of
\* the synthesized report body: no section chunk is headed by its title, and
\* there are no more section chunks than planned sections with other titles.
C13_ReservedTitlesExcluded ==
  /\ \A n \in SectionChunks, p \in ReservedSections :
       ~StartsWith(events[n].text,
                   <<"#", "#", " ">> \o run[1].plan[p].title \o <<"\n", "\n">>)
  /\ Cardinality(SectionChunks) + Cardinality(ReservedSections) <= Len(run[1].plan)

\* A report was completed for a plan that holds a reserved title.
C13_Witness ==
  /\ run[1].pc = "done"
  /\ Emitted("completed") # {}
  /\ ReservedSections # {}
  /\ SectionChunks # {}

\* The place of a section chunk among the section chunks.
ChunkRank(n) == Cardinality({m \in SectionChunks : m <= n})

\* C14: in a run that found at least one source the report_chunk events come in
\* document order, the summary first and then each retained section in plan
\* order; at most one report_replace event is emitted, exactly one once the run
\* has completed, carrying the full citation-processed report; and no
\* report_chunk event is emitted after the report_replace.
C14_ChunksThenOneReplace ==
  AllSources(run[1].sectionResults) # << >> =>
    /\ Emitted("report_chunk") # {} =>
         StartsWith(events[SetMin(Emitted("report_chunk"))].text,
                    summaryTitle(run[1].language) \o <<"\n", "\n">>)
    /\ \A n \in SectionChunks :
         /\ ChunkRank(n) <= Len(FilteredSections(run[1].sectionResults))
         /\ events[n].text =
              SectionContent(FilteredSections(run[1].sectionResults)[ChunkRank(n)])
    /\ Cardinality(Emitted("report_replace")) <= 1
    /\ Emitted("completed") # {} =>
         \E n \in Emitted("report_replace") : events[n].text = messages[1].content
    /\ \A n \in Emitted("report_chunk"), m \in Emitted("report_replace") : n < m

\* The research_started events of a session, by position in the event log.
StartedOf(s) == {n \in Emitted("research_started") : events[n].run = s}

\* The tool_start events of a session for section i: of its keyword call, or of
\* its search call.
ToolStartsOf(s, i, keyword) ==
  {n \in Emitted("tool_start") :
     /\ events[n].run = s
     /\ events[n].idx = i
     /\ (events[n].text = <<"keyword_generation">>) = keyword}

\* Section i of session s went through its calls one after the other before
\* position n of the log: one keyword call, then one search call, both after the
\* section was announced.
SectionDoneBefore(s, i, n) ==
  /\ Cardinality(ToolStartsOf(s, i, TRUE)) = 1
  /\ Cardinality(ToolStartsOf(s, i, FALSE)) = 1
  /\ \A k \in StartedOf(s), a \in ToolStartsOf(s, i, TRUE), b \in ToolStartsOf(s, i, FALSE) :
       events[k].idx = i => (k < a /\ a < b /\ b < n)

C16_CappedDistinctDois ==
  search.pc = "done" =>
    /\ Len(search.out) <= 20
    /\ \A n \in 1..Len(search.out) : search.out[n].doi # << >>
    /\ \A m, n \in 1..Len(search.out) :
         m # n => normalizeDoi(search.out[m].doi) # normalizeDoi(search.out[n].doi)

\* The place of the first of the records that carry the DOI.
FirstWith(records, doi) == SetMin({n \in 1..Len(records) : records[n].doi = doi})

\* C17: when several candidate records share a DOI, the record search returns for
\* that DOI is the first one encountered, at the place of that first occurrence;
\* the candidates are the primary backend's records followed by the secondary
\* backend's, each in its order.
C17_FirstOccurrenceWins ==
  search.pc = "done" =>
    /\ search.results = search.pubmed \o search.scholar
    /\ \A k \in 1..Len(search.out) :
         search.out[k] = search.results[FirstWith(search.results, search.out[k].doi)]
    /\ \A j, k \in 1..Len(search.out) :
         j < k => FirstWith(search.results, search.out[j].doi)
                  < FirstWith(search.results, search.out[k].doi)

\* C18: the primary backend is queried tier by tier in the order of the tiers;
\* only the last tier queried may have returned a record (or thrown), so that no
\* tier is queried after one that succeeded; and the search gives up on the
\* primary backend with zero records only after the broadest tier was queried.
C18_TiersUntilFirstResult ==
  /\ Len(search.asked) <= Len(search.queries)
  /\ \A k \in 1..Len(search.asked) :
       /\ search.asked[k].query = search.queries[k]
       /\ k < Len(search.asked) => search.asked[k].found = 0
  /\ (search.pc \in {"scholar", "done"} /\ ~search.threw) =>
       /\ search.asked # << >>
       /\ search.asked[Len(search.asked)].found = 0 => Len(search.asked) = Len(search.queries)
       /\ search.asked[Len(search.asked)].found > 0 =>
            Len(search.pubmed) = search.asked[Len(search.asked)].found

\* The second of three tiers returned records, after the first returned none.
C18_Witness ==
  /\ search.pc = "done"
  /\ Len(search.queries) = 3
  /\ Len(search.asked) = 2
  /\ search.asked[2].found > 0

\* C19: for the keywords [a, b, c] the tiers are (a) AND (b) AND (c), then
\* (a) AND ((b) OR (c)), then (a) OR (b) OR (c); for two keywords only the all-AND
\* and the all-OR tier are produced; and the middle tier exists if and only if
\* there are at least three keywords.
C19_TieredQueries ==
  search.pc # "idle" =>
    /\ KeywordsOf(search.query) = << <<"a">>, <<"b">>, <<"c">> >> =>
         search.queries = << <<"(", "a", ")", " ", "A", "N", "D", " ", "(", "b", ")", " ", "A", "N", "D", " ", "(", "c", ")">>,
                             <<"(", "a", ")", " ", "A", "N", "D", " ", "(", "(", "b", ")", " ", "O", "R", " ", "(", "c", ")", ")">>,
                             <<"(", "a", ")", " ", "O", "R", " ", "(", "b", ")", " ", "O", "R", " ", "(", "c", ")">> >>
    /\ KeywordsOf(search.query) = << <<"a">>, <<"b">> >> =>
         search.queries = << <<"(", "a", ")", " ", "A", "N", "D", " ", "(", "b", ")">>, <<"(", "a", ")", " ", "O", "R", " ", "(", "b", ")">> >>
    /\ Len(KeywordsOf(search.query)) > 1 =>
         search.queries = buildTieredQueries(KeywordsOf(search.query))
    /\ Len(buildTieredQueries(KeywordsOf(search.query))) = 3
         <=> Len(KeywordsOf(search.query)) >= 3
    /\ Len(KeywordsOf(search.query)) >= 3 =>
         buildTieredQueries(KeywordsOf(search.query))[2] =
           <<"(">> \o KeywordsOf(search.query)[1] \o <<")">> \o S_AND \o <<"(">>
           \o Join(Tail(Quoted(KeywordsOf(search.query))), S_OR) \o <<")">>

\* A search with four keywords has asked its three tiers.
C19_Witness ==
  /\ search.pc = "scholar"
  /\ Len(KeywordsOf(search.query)) = 4
  /\ Len(search.queries) = 3

\* C20: a failure of either backend never makes search fail: the call returns,
\* the failing backend contributes no record, and what is returned is what the
\* other backend gave (deduplicated and capped), or nothing.
C20_BackendFailureTolerated ==
  /\ ~search.threw
  /\ search.pc = "done" =>
       /\ "pubmed" \in search.failed =>
            /\ search.pubmed = << >>
            /\ search.out = Merge(search.scholar)
       /\ "scholar" \in search.failed =>
            /\ search.scholar = << >>
            /\ search.out = Merge(search.pubmed)
       /\ search.failed = {"pubmed", "scholar"} => search.out = << >>
       /\ ("pubmed" \in search.failed /\ ~search.initialized) => search.out = << >>

\* PubMed failed and the search returned what the web search gave.
C20_Witness ==
  /\ search.pc = "done"
  /\ search.failed = {"pubmed"}
  /\ search.out # << >>

(***************************************************************************)
(* Properties of normalizeDoi and of the references section                *)
(***************************************************************************)

\* C21: normalizeDoi is idempotent: normalizeDoi(normalizeDoi(x)) equals
\* normalizeDoi(x) for every input x, inputs with repeated doi: / doi.org
\* prefixes, nested percent-escapes and trailing punctuation after white space
\* included.
C21_NormalizeIdempotent == call.fn = "normalizeDoi" /\ call.n = 2 => call.again = call.out

S_bareDoi == <<"1", "0", ".", "1", "2", "3", "4", "/", "A", "b", "C">>

\* C22: normalizeDoi strips a wrapping markdown link to doi.org, a leading doi:
\* prefix, a doi.org URL prefix, percent-encoding and trailing sentence
\* punctuation: the complete markdown-link citation
\* [DOI: 10.1234/AbC.](https://doi.org/10.1234/AbC.) normalizes to 10.1234/AbC,
\* as do the DOI behind one prefix and before one such ending.
C22_NormalizeStripsAll ==
  call.fn = "normalizeDoi" /\ call.n >= 1 =>
    /\ call.input = S_linkCitation => call.out = S_bareDoi
    /\ call.input \in {pre \o S_bareDoi \o suf :
                         pre \in {<< >>, <<"d", "o", "i", ":">>, <<"D", "O", "I", ":", " ">>,
                                  <<"h", "t", "t", "p", "s", ":", "/", "/", "d", "o", "i", ".", "o", "r", "g", "/">>,
                                  <<"h", "t", "t", "p", ":", "/", "/", "d", "x", ".", "d", "o", "i", ".", "o", "r", "g", "/">>},
                         suf \in {<< >>, <<".">>, <<")", ";">>,
                                  <<"]", "(", "h", "t", "t", "p", "s", ":", "/", "/", "d", "o", "i", ".", "o", "r", "g", "/", "1", "0", ".", "1", "2", "3", "4", "/", "A", "b", "C">>}}
         => call.out = S_bareDoi
    /\ call.input = <<"1", "0", ".", "1", "2", "3", "4", "/", "a", "%", "2", "F", "b">> => call.out = <<"1", "0", ".", "1", "2", "3", "4", "/", "a", "/", "b">>

\* Where the entries of a references section start: a line that begins with
\* "- ", after an empty line.
EntryStarts(out) == {i \in 1..Len(out) : LitAt(out, i, <<"\n", "\n", "-", " ">>, FALSE)}

\* The k-th entry of a references section.
Entry(out, k) ==
  LET from == CHOOSE i \in EntryStarts(out) :
                Cardinality({j \in EntryStarts(out) : j <= i}) = k
  IN  SubSeq(out, from, MinOr({j \in EntryStarts(out) : j > from}, Len(out) + 1) - 1)

\* The places of seq at which an element occurs for the first time.
FirstPlaces(seq) == {n \in 1..Len(seq) : \A m \in 1..(n - 1) : seq[m] # seq[n]}

\* The k-th distinct element of seq, in the order of first occurrence.
Distinct(seq, k) ==
  seq[CHOOSE n \in FirstPlaces(seq) : Cardinality({m \in FirstPlaces(seq) : m <= n}) = k]

\* C23: generateReferencesSection emits, after the localized heading, exactly
\* one bibliography entry per distinct DOI of citedDois, in the order in which
\* the DOIs first occur in citedDois, however often a DOI repeats.
C23_OneEntryPerCitedDoi ==
  call.fn = "generateReferencesSection" /\ call.n = 1 =>
    /\ StartsWith(call.out,
                  (IF call.language = "ko" THEN <<"#", "#", " ">> \o S_chamgomunheon
                   ELSE S_ReferencesHeading) \o <<"\n", "\n">>)
    /\ Cardinality(EntryStarts(call.out)) = Cardinality(FirstPlaces(call.citedDois))
    /\ \A k \in 1..Cardinality(FirstPlaces(call.citedDois)) :
         Includes(Entry(call.out, k),
                  <<"[">> \o S_DOI \o <<" ">> \o Distinct(call.citedDois, k) \o <<"]", "(">>)

\* A list that cites a DOI again after another one.
C23_Witness ==
  /\ call.fn = "generateReferencesSection"
  /\ call.n = 1
  /\ call.citedDois = <<S_citedReal, S_citedFake, S_citedReal>>

\* The normalized DOIs of the markers of the text, in the order of the text.
MarkerDois ==
  [k \in 1..Cardinality(MarkersOf(TRUE)) |->
     normalizeDoi(cite.segs[CHOOSE n \in MarkersOf(TRUE) :
                              Cardinality({m \in MarkersOf(TRUE) : m <= n}) = k].doi)]

\* C24: citedDois orders the verified DOIs by the position of their first
\* citation in the document, whatever mix of surface forms the document uses.
C24_CitedInReadingOrder ==
  cite.done =>
    /\ Len(cite.out.citedDois) = Cardinality(FirstPlaces(MarkerDois))
    /\ \A k \in 1..Len(cite.out.citedDois) : cite.out.citedDois[k] = Distinct(MarkerDois, k)

(***************************************************************************)
(* Further properties of the research orchestrator                         *)
(***************************************************************************)

\* No two records of a source list have the same normalized DOI.
DistinctDois(sources) ==
  \A m, n \in 1..Len(sources) :
    m # n => normalizeDoi(sources[m].doi) # normalizeDoi(sources[n].doi)

\* C25: a session's source list is deduplicated by normalized DOI: at every
\* point of a run, and in the source list stored with the final report message,
\* no two records have the same normalized DOI, even when the searches of
\* different sections return the same paper.
C25_SourcesDeduplicated ==
  /\ DistinctDois(activeSession.sources)
  /\ \A n \in 1..Len(messages) : DistinctDois(messages[n].sources)

\* C26: pause(id), resume(id), cancel(id) and updateQuery(id, q) called with an
\* id that is not the id of the active session (also when no session is active)
\* change nothing: the paused flag, the cancellation token, every persisted
\* session status and the active session record are unchanged, and no event is
\* emitted.
C26_ForeignIdChangesNothing ==
  [][\A id \in Sessions :
       (/\ activeSession.id # id
        /\ pause(id) \/ resume(id) \/ cancel(id) \/ updateQuery(id, S_newQuery))
       => UNCHANGED <<isPaused, abortController, aborted, db, activeSession, events,
                      messages, run>>]_vars

\* Every call the user may make was made while session 1 was active, and none
\* of them reached it.
C26_Witness ==
  /\ activeSession.id = 1
  /\ calls = MaxCalls
  /\ ~isPaused
  /\ ~aborted[1]
  /\ Emitted("paused") = {}
  /\ \A n \in Emitted("status") :
       events[n].text \notin {<<"Research resumed">>, <<"Query updated">>}

\* The events of a type sent for a session, by position in the event log.
EmittedFor(type, s) == {n \in Emitted(type) : events[n].run = s}

\* Once the first report_chunk of a session has been emitted the run is neither
\* cancelled nor waiting in the pause loop.
SynthesisUninterrupted ==
  \A s \in Sessions :
    /\ \A n \in EmittedFor("report_chunk", s), m \in EmittedFor("cancelled", s) : m < n
    /\ run[s].pc = "paused" => EmittedFor("report_chunk", s) = {}

\* C27: pause and cancel are observed at the poll points only -- before each
\* section's processing, once before the synthesis phase, and inside the
\* pause-wait loop: the call of cancel or updateQuery itself never yields the
\* cancelled event (the run goes on until the call in flight has settled), and
\* once the synthesis phase has begun (first report_chunk emitted) the run is no
\* longer interrupted by pause or cancel.
C27_PollPointsOnly ==
  [][/\ calls' # calls => "cancelled" \notin NewTypes
     /\ SynthesisUninterrupted']_vars

\* C28: updateQuery(id, newQuery) on the active session does nothing except
\* signal cancellation of the current run and emit one status notification: the
\* session's query, plan, currentStep and sources are unchanged and no new run
\* is started.
C28_UpdateQueryOnlyCancels ==
  [][\A id \in Sessions :
       (activeSession.id = id /\ updateQuery(id, S_newQuery)) =>
         /\ NewEvents = <<Ev("status", id, 0, <<"Query updated">>)>>
         /\ aborted' = [aborted EXCEPT ![abortController] = TRUE]
         /\ activeSession' = activeSession
         /\ activeSession'.query = S_query
         /\ UNCHANGED <<abortController, isPaused, db, messages, chatTitles, run>>]_vars

\* updateQuery was called on the active session, whose run has not yet reached
\* a poll point.
C28_Witness ==
  /\ activeSession.id = 1
  /\ aborted[1]
  /\ \E n \in Emitted("status") : events[n].text = <<"Query updated">>

\* The report messages stored for the conversation of a session.
MessagesOf(s) == {n \in 1..Len(messages) : messages[n].chatId = s}

\* The final report content of a session: what its last report_replace event
\* carries, or the placeholder of a run without sources.
FinalReport(s) ==
  IF EmittedFor("report_replace", s) = {} THEN noSourcesReport(run[s].language)
  ELSE events[SetMax(EmittedFor("report_replace", s))].text

\* What is stored for a session: at most one report message, with the final
\* report and the sources of all sections; and once the run is over, one exactly
\* when it ended without cancellation or failure.
ReportStored(s) ==
  /\ Cardinality(MessagesOf(s)) <= 1
  /\ \A n \in MessagesOf(s) :
       /\ messages[n].content = FinalReport(s)
       /\ messages[n].sources = AllSources(run[s].sectionResults)
       /\ EmittedFor("completed", s) # {}
  /\ run[s].pc = "done" =>
       (MessagesOf(s) # {}
          <=> (EmittedFor("error", s) = {} /\ EmittedFor("cancelled", s) = {}))

\* C29: a report message is stored for the conversation exactly when the run
\* finishes without cancellation or failure, exactly once per session and only
\* after status completed has been persisted; its content equals the session's
\* final report content and its metadata is the session's accumulated source
\* list.  A failing title-generation call afterwards changes neither the status
\* nor the stored message and emits no error event.
C29_ReportMessageStored ==
  [][\A s \in Sessions :
       /\ ReportStored(s)'
       /\ MessagesOf(s)' # MessagesOf(s) => db'[s].status = "completed"
       /\ TitleSettles(s, FALSE) =>
            /\ db' = db
            /\ messages' = messages
            /\ NewEvents = << >>]_vars

\* A run with sources stored its report, and its title call failed.
C29_Witness ==
  /\ run[1].pc = "done"
  /\ MessagesOf(1) # {}
  /\ ~chatTitles[1]
  /\ EmittedFor("report_replace", 1) # {}

\* C30: if the planning response is not parseable as the expected plan
\* structure, the session is aborted in the planning phase: no plan is
\* persisted, no plan_created and no research_started event is emitted, and no
\* search or synthesis call is made; a plan is persisted and plan_created
\* emitted only for a successfully parsed plan.
C30_UnparsablePlanAborts ==
  \A s \in Sessions :
    /\ run[s].plan = NoPlan =>
         /\ db[s].plan = NoPlan
         /\ EmittedFor("plan_created", s) = {}
         /\ EmittedFor("research_started", s) = {}
         /\ EmittedFor("tool_start", s) = {}
         /\ run[s].pc \in {"idle", "plan", "done"}
    /\ db[s].plan # NoPlan => db[s].plan = run[s].plan
    /\ EmittedFor("plan_created", s) # {} => db[s].plan = run[s].plan

(***************************************************************************)
(* The allow-list of cited DOIs                                            *)
(***************************************************************************)

\* The references section synthesizeReport appends for the result of the call.
ReferencesOfCall ==
  generateReferencesSection(cite.out.citedDois, EmptyMap, cite.fallbackByDoi, "en")

\* The entry links the DOI: [DOI: doi](https://doi.org/...
EntryCites(entry, doi) ==
  Includes(entry, <<"[">> \o S_DOI \o <<" ">> \o doi \o <<"]", "(">> \o S_doiOrgUrl)

\* C31: every DOI the final report cites as verified -- every entry of its
\* generated references section and every DOI in citedDois -- is the normalized
\* DOI of a source the search returned during the session, and no DOI is in both
\* citedDois and removedDois.
C31_OnlyRetrievedDoisCited ==
  cite.done =>
    /\ \A k \in 1..Len(cite.out.citedDois) : cite.out.citedDois[k] \in DOMAIN cite.fallbackByDoi
    /\ \A k \in 1..Cardinality(EntryStarts(ReferencesOfCall)) :
         \E doi \in DOMAIN cite.fallbackByDoi : EntryCites(Entry(ReferencesOfCall, k), doi)
    /\ \A j \in 1..Len(cite.out.citedDois), k \in 1..Len(cite.out.removedDois) :
         cite.out.citedDois[j] # cite.out.removedDois[k]

(***************************************************************************)
(* Termination                                                             *)
(***************************************************************************)

\* The run of s waits in the pause loop, paused and not cancelled.
HeldPaused(s) == run[s].pc = "paused" /\ isPaused /\ ~aborted[s]

\* The assumption on the user: a paused session is eventually resumed or
\* cancelled.
PausedIsReleased == HeldPaused(1) ~> ~HeldPaused(1)

TerminalPersisted(s) == db[s].status \in {"completed", "cancelled"}

\* startResearch has returned: the run of s waits for its planning call.
Started(s) == run[s].pc = "plan"

\* C32: if every external call eventually settles and a paused session is
\* eventually resumed or cancelled, every started run terminates: a terminal
\* status (completed or cancelled) is eventually persisted for the session and
\* the active-session reference is eventually cleared.
C32_RunTerminates ==
  PausedIsReleased =>
    /\ Started(1) ~> TerminalPersisted(1)
    /\ Started(1) ~> (run[1].pc = "done" /\ activeSession = NoSession)

\* A run that was paused in the pause loop and resumed has ended.
C32_Witness ==
  /\ run[1].pc = "done"
  /\ activeSession = NoSession
  /\ TerminalPersisted(1)
  /\ EmittedFor("paused", 1) # {}
  /\ \E k \in EmittedFor("status", 1) : events[k].text = <<"Research resumed">>
  /\ EmittedFor("completed", 1) # {}

(***************************************************************************)
(* Cancellation of an active run                                           *)
(***************************************************************************)

\* C33: if cancel(id) is called for the active session before that session's
\* terminal status has been persisted, and every external call settles, the
\* session's final persisted status is cancelled and the cancelled event is
\* emitted: such a run never ends as completed, so no step of it persists the
\* status completed.
C33_CancelBeatsCompletion ==
  [][\A s \in Sessions :
       (aborted[s] /\ ~TerminalPersisted(s)) => db'[s].status # "completed"]_vars

(***************************************************************************)
(* Terminal events                                                         *)
(***************************************************************************)

TerminalTypes == {"completed", "cancelled", "error"}

\* The places of the terminal events emitted for session s.
TerminalEventsOf(s) ==
  {n \in 1..Len(events) : events[n].run = s /\ events[n].type \in TerminalTypes}

\* C34: terminal events are final: after the completed, cancelled or error event
\* of a session has been emitted no further event of any kind is emitted for
\* that session, and a run emits exactly one of the three terminal events.
C34_TerminalEventIsLast ==
  \A s \in Sessions :
    /\ Cardinality(TerminalEventsOf(s)) <= 1
    /\ run[s].pc = "done" => Cardinality(TerminalEventsOf(s)) = 1
    /\ \A n \in TerminalEventsOf(s), m \in 1..Len(events) : events[m].run = s => m <= n

(***************************************************************************)
(* Two overlapping sessions                                                *)
(***************************************************************************)

\* The run of s takes the step.
StepOf(s) == run'[s] # run[s]

\* C35: sessions do not interfere when start is called while an earlier run is
\* still in progress: the later session stays the active session with a live
\* cancellation token until it terminates itself (the cleanup of the earlier run
\* clears only its own references), cancel(B) cancels only B, and each run
\* writes sources, plan, currentStep and report content only into the record of
\* its own session.
C35_SessionsDoNotInterfere ==
  [][\A s \in Sessions :
       /\ (activeSession.id = s /\ activeSession'.id = 0) => StepOf(s)
       /\ (abortController = s /\ abortController' = 0) => StepOf(s)
       /\ EmittedFor("cancelled", s)' # EmittedFor("cancelled", s) => aborted[s]
       /\ (StepOf(s) /\ activeSession.id # s /\ activeSession'.id = activeSession.id)
            => activeSession' = activeSession]_vars

(***************************************************************************)
(* The in-memory session record                                            *)
(***************************************************************************)

\* getActiveSession(): return this.activeSession
getActiveSession == activeSession

\* C36: while a session is active, the status field of the in-memory session
\* record returned by getActiveSession() equals the status most recently
\* persisted for that session: running after start and after resume, paused
\* after pause.
C36_RecordStatusIsPersistedStatus ==
  getActiveSession # NoSession =>
    getActiveSession.status = db[getActiveSession.id].status

(***************************************************************************)
(* The sections of the report body                                         *)
(***************************************************************************)

\* The section chunks headed by the title of planned section p.
ChunksOf(p) ==
  {n \in SectionChunks :
     StartsWith(events[n].text, <<"#", "#", " ">> \o run[1].plan[p].title \o <<"\n", "\n">>)}

\* The planned sections whose title is not itself a reserved title.
OtherSections == (1..Len(run[1].plan)) \ ReservedSections

\* C37: only reserved titles are dropped: every planned section whose title is
\* not itself one of the reserved titles (for example a title that merely
\* contains the word summary or references inside a longer title) appears in the
\* report body exactly once, under its own heading and in plan order.
C37_OnlyReservedTitlesDropped ==
  Emitted("completed") # {} =>
    /\ \A p \in OtherSections : Cardinality(ChunksOf(p)) = 1
    /\ \A p, q \in OtherSections :
         p < q => \A n \in ChunksOf(p), m \in ChunksOf(q) : n < m

(***************************************************************************)
(* The client                                                              *)
(***************************************************************************)

\* C38: on the client a report_replace event replaces the accumulated report
\* content with the event's content, so that the report the client shows and
\* records when the completed event arrives is the citation-validated text and
\* not the concatenation of the raw report_chunk events.
C38_ClientShowsValidatedReport ==
  /\ \A m \in Emitted("report_replace") :
       ClientAfter(m).activeResearch.reportContent = events[m].text
  /\ \A n \in Emitted("completed") :
       \A m \in Emitted("report_replace") :
         m < n => ClientAfter(n).messages = <<events[m].text>>

\* C39: a paused session can always be resumed from the client: after the client
\* has received the paused event for the active research its pause/resume
\* control is enabled and activating it invokes resume(sessionId).
C39_PausedCanBeResumed ==
  (activeSession.id = 1 /\ isPaused) =>
    /\ ControlEnabled
    /\ ControlStatus = "paused"

====
